---- MODULE Spec2Model ----
(***************************************************************************)
(* open62541Cpp: the Server wrapper (open62541server.h), ServerMethod and  *)
(* ServerNodeTree (servermethod.cpp) over the address space kept by the    *)
(* underlying protocol engine.                                             *)
(*                                                                         *)
(* The engine (the UA_Server calls) is an external collaborator: its       *)
(* operators are written from the contract of spec.md section 4.2.  The    *)
(* wrapper methods                                                         *)
(* are translated from the source: each takes (or does not take) the       *)
(* server's ReadWriteMutex, runs one engine call, stores the status in     *)
(* _lastError and computes its boolean result.                             *)
(***************************************************************************)
EXTENDS Integers, Sequences, FiniteSets, TLC

(***************************************************************************)
(* Bounds of the model.                                                    *)
(***************************************************************************)
\* how many identifiers the engine hands out on auto-assignment
MaxAuto == 2
\* longest folder path given to createFolderPath
MaxPath == 2
\* most input or output arguments of a method
MaxArgs == 2

(***************************************************************************)
(* Identifier and value types.                                             *)
(***************************************************************************)
\* NodeId: (namespace index, numeric identifier)
NodeIdNull == <<0, 0>>
NodeIdObjects == <<0, 85>>
\* the namespace the example servers create with addNamespace("urn:test:test")
TestNs == 1
\* explicit identifiers a caller asks for
ExplicitIds == {<<1, 1>>, <<1, 2>>}
\* identifiers the engine hands out on auto-assignment, in order
AutoId(ns, k) == <<ns, 50000 + k>>
AutoIds == {AutoId(ns, k) : ns \in {0, TestNs}, k \in 0..(MaxAuto - 1)}
NodeIds == {NodeIdObjects} \cup ExplicitIds \cup AutoIds

Names == {"A", "B"}

\* Variant: a type tag and a payload; the null Variant has no type
NullVariant == [type |-> "Null", data |-> 0]
Variants == {[type |-> "Int32", data |-> 1], [type |-> "Int32", data |-> 42],
             [type |-> "String", data |-> 1]}

\* UA_StatusCode values; UA_STATUSCODE_GOOD is 0, and BoolStatus is what a
\* C++ bool becomes when it is stored in a UA_StatusCode
Good == "Good"
BadStatus == {"NodeNotFound", "ParentNotFound", "IdentifierCollision",
              "AttributeNotApplicable", "TypeMismatch", "AccessDenied",
              "ArgumentCountMismatch"}
BoolStatus(b) == IF b THEN "0x00000001" ELSE Good

\* access level bits (UA_ACCESSLEVELMASK_*)
AccessBits == {"READ", "WRITE", "HISTORYREAD", "HISTORYWRITE"}

\* Repeated callbacks.  The objects are numbered: TestServer::_repeatedEvent is
\* a member of the example server, the others are made by addRepeatedCallback.
MaxCallbacks == 2
MaxTimers == 4
MaxIterations == 2
MaxNamespaces == 2
NoCallback == 0
RepeatedEvent == 1
CallbackIds == 1..(MaxCallbacks + 1)
CallbackNames == {"first", "second"}
Intervals == {500, 2000}

VARIABLES
    nodes,      \* engine: NodeId -> node record, for the nodes in the store
    refs,       \* engine: reference entries [holder, type, other, fwd]
    nextAuto,   \* engine: how many identifiers were auto-assigned
    mutex,      \* Server::_mutex: the thread holding the WriteLock, or Free
    lastError,  \* Server::_lastError
    pc,         \* per thread: where it is in its current operation
    op,         \* per thread: the operation it runs, with its arguments
    handler,    \* per thread: the Server::call whose handler body it runs
    ret,        \* per thread: the result of its last finished operation
    torn,       \* threads whose engine read raced with a write of the same value
    notes,      \* what an observed caller remembers of its earlier calls
    callbacks,  \* Server::_callbacks: name -> the callback held under it
    repeated,   \* the SeverRepeatedCallback objects: state, _id, _interval
    loop,       \* engine: the timers of the event loop and the body it runs
    life,       \* Server: the engine handles, the run flag and the place in start()
    namespaces  \* engine: the namespace array, a name at index + 1

vars == <<nodes, refs, nextAuto, mutex, lastError, pc, op, handler, ret, torn,
          notes, callbacks, repeated, loop, life, namespaces>>
store == <<nodes, refs, nextAuto>>
scheduler == <<callbacks, repeated, loop>>
engine == <<life, namespaces>>

Threads == {"t1", "t2"}
Free == "free"
NoOp == [kind |-> "none"]
\* the result of a caller that drops the results of its calls
Discarded == [kind |-> "discarded"]
Nothing == [nodeId |-> NodeIdNull]

(***************************************************************************)
(* The engine's address space (external collaborator, spec.md 4.2).        *)
(* Every engine operator is a function of the store (N: nodes, R: refs,    *)
(* k: auto-assign counter) and returns the status with the new store.      *)
(***************************************************************************)
NodeClasses == {"Object", "Variable", "Method", "ObjectType"}
NoContext == "none"

\* does the attribute exist for a node of this class
AttributeApplies(cls, attr) ==
    CASE attr = "Value"       -> cls = "Variable"
      [] attr = "AccessLevel" -> cls = "Variable"
      [] attr = "Executable"  -> cls = "Method"
      [] attr = "ArrayDimensions" -> cls = "Variable"
      [] OTHER                -> TRUE

\* __UA_Server_read: the status and the attribute's value
UA_Server_read(N, nodeId, attr) ==
    IF nodeId \notin DOMAIN N
    THEN [status |-> "NodeNotFound", value |-> NullVariant]
    ELSE IF ~AttributeApplies(N[nodeId].cls, attr)
    THEN [status |-> "AttributeNotApplicable", value |-> NullVariant]
    ELSE [status |-> Good,
          value |-> CASE attr = "Value"       -> N[nodeId].value
                      [] attr = "AccessLevel" -> N[nodeId].accessLevel
                      [] attr = "Executable"  -> N[nodeId].executable
                      [] attr = "ArrayDimensions" -> N[nodeId].arrayDimensions
                      [] OTHER                -> N[nodeId].browseName]

\* __UA_Server_write: the status and the nodes after the write
UA_Server_write(N, nodeId, attr, v) ==
    IF nodeId \notin DOMAIN N
    THEN [status |-> "NodeNotFound", nodes |-> N]
    ELSE IF ~AttributeApplies(N[nodeId].cls, attr)
    THEN [status |-> "AttributeNotApplicable", nodes |-> N]
    ELSE CASE attr = "Value" ->
                IF "WRITE" \notin N[nodeId].accessLevel
                THEN [status |-> "AccessDenied", nodes |-> N]
                ELSE IF v.type # N[nodeId].dataType
                THEN [status |-> "TypeMismatch", nodes |-> N]
                ELSE [status |-> Good,
                      nodes |-> [N EXCEPT ![nodeId].value = v]]
           [] attr = "AccessLevel" ->
                [status |-> Good, nodes |-> [N EXCEPT ![nodeId].accessLevel = v]]
           [] attr = "Executable" ->
                [status |-> Good, nodes |-> [N EXCEPT ![nodeId].executable = v]]
           [] attr = "ArrayDimensions" ->
                [status |-> Good, nodes |-> [N EXCEPT ![nodeId].arrayDimensions = v]]
           [] OTHER ->
                [status |-> Good, nodes |-> [N EXCEPT ![nodeId].browseName = v]]

\* a requested id whose identifier is 0 asks the engine to assign one
IsAutoRequest(requestedId) == requestedId[2] = 0

NewNode(cls, browseName, value, accessLevel, context, method) ==
    [cls |-> cls, browseName |-> browseName, value |-> value,
     dataType |-> value.type, accessLevel |-> accessLevel,
     executable |-> (cls = "Method"), arrayDimensions |-> NullVariant,
     context |-> context, method |-> method]

\* the two entries of one reference: the source holds the forward entry, the
\* target the inverse one
RefEntries(source, refType, target) ==
    {[holder |-> source, type |-> refType, other |-> target, fwd |-> TRUE],
     [holder |-> target, type |-> refType, other |-> source, fwd |-> FALSE]}

\* UA_Server_add*Node: ParentNotFound, IdentifierCollision, or the node is
\* inserted under the parent with the given reference type
UA_Server_addNode(N, R, k, requestedId, parentId, refType, node) ==
    LET new == IF IsAutoRequest(requestedId)
               THEN AutoId(requestedId[1], k) ELSE requestedId
    IN  IF parentId \notin DOMAIN N
        THEN [status |-> "ParentNotFound", nodes |-> N, refs |-> R,
              nextAuto |-> k, newId |-> NodeIdNull]
        ELSE IF new \in DOMAIN N
        THEN [status |-> "IdentifierCollision", nodes |-> N, refs |-> R,
              nextAuto |-> k, newId |-> NodeIdNull]
        ELSE [status |-> Good,
              nodes |-> [x \in DOMAIN N \cup {new} |->
                            IF x = new THEN node ELSE N[x]],
              refs |-> R \cup RefEntries(parentId, refType, new),
              nextAuto |-> IF IsAutoRequest(requestedId) THEN k + 1 ELSE k,
              newId |-> new]

\* Server::destructor, which the engine calls for a node it deletes: the
\* context attached to the node gets the destruct notification, and present
\* says whether it finds the node in the store N at that moment
destructor(N, nodeId, nodeContext) ==
    IF nodeContext = NoContext THEN <<>>
    ELSE <<[nodeId |-> nodeId, context |-> nodeContext,
            present |-> nodeId \in DOMAIN N]>>

\* a deletion that removes the node first and notifies its context afterwards
UA_Server_deleteNodeThenDestruct(N, R, nodeId, deleteReferences) ==
    IF nodeId \notin DOMAIN N
    THEN [status |-> "NodeNotFound", nodes |-> N, refs |-> R, destructs |-> <<>>]
    ELSE LET after == [x \in DOMAIN N \ {nodeId} |-> N[x]]
         IN  [status |-> Good,
              nodes |-> after,
              refs |-> {r \in R : /\ r.holder # nodeId
                                  /\ (deleteReferences => r.other # nodeId)},
              destructs |-> destructor(after, nodeId, N[nodeId].context)]

\* UA_Server_deleteNode: the context of the node is notified, then the node
\* goes with the entries it holds; with deleteReferences the entries other
\* nodes hold on it go too
UA_Server_deleteNode(N, R, nodeId, deleteReferences) ==
    IF nodeId \notin DOMAIN N
    THEN [status |-> "NodeNotFound", nodes |-> N, refs |-> R, destructs |-> <<>>]
    ELSE [status |-> Good,
          nodes |-> [x \in DOMAIN N \ {nodeId} |-> N[x]],
          refs |-> {r \in R : /\ r.holder # nodeId
                              /\ (deleteReferences => r.other # nodeId)},
          destructs |-> destructor(N, nodeId, N[nodeId].context)]

\* UA_Server_getNodeContext, UA_Server_setNodeContext: the context the
\* engine keeps with the node
UA_Server_getNodeContext(N, nodeId) ==
    IF nodeId \notin DOMAIN N
    THEN [status |-> "NodeNotFound", nodeContext |-> NoContext]
    ELSE [status |-> Good, nodeContext |-> N[nodeId].context]
UA_Server_setNodeContext(N, nodeId, nodeContext) ==
    IF nodeId \notin DOMAIN N
    THEN [status |-> "NodeNotFound", nodes |-> N]
    ELSE [status |-> Good, nodes |-> [N EXCEPT ![nodeId].context = nodeContext]]

\* UA_Server_addReference / UA_Server_deleteReference
UA_Server_addReference(N, R, source, refType, target) ==
    IF source \notin DOMAIN N \/ target \notin DOMAIN N
    THEN [status |-> "NodeNotFound", refs |-> R]
    ELSE [status |-> Good, refs |-> R \cup RefEntries(source, refType, target)]

UA_Server_deleteReference(N, R, source, refType, target) ==
    IF source \notin DOMAIN N \/ target \notin DOMAIN N
    THEN [status |-> "NodeNotFound", refs |-> R]
    ELSE [status |-> Good, refs |-> R \ RefEntries(source, refType, target)]

\* the children of a node: targets of the forward hierarchical entries it holds
HierarchicalRefs == {"Organizes", "HasComponent", "HasOrderedComponent", "HasSubType"}
Children(N, R, parentId) ==
    {r.other : r \in {e \in R : /\ e.holder = parentId /\ e.fwd
                                /\ e.type \in HierarchicalRefs
                                /\ e.other \in DOMAIN N}}
ChildrenNamed(N, R, parentId, name) ==
    {c \in Children(N, R, parentId) : N[c].browseName[2] = name}

\* the node ids in the order in which a browse lists them
Before(a, b) == a[1] < b[1] \/ (a[1] = b[1] /\ a[2] <= b[2])

\* the members of a set of node ids as a sequence, in the order of a browse
RECURSIVE Listed(_)
Listed(S) ==
    IF S = {} THEN <<>>
    ELSE LET first == CHOOSE a \in S : \A b \in S : Before(a, b)
         IN  <<first>> \o Listed(S \ {first})

\* a step of browseTree that expands the next node whether or not the walk
\* saw it before
ExpandAgain(N, R, walk) ==
    LET n == Head(walk.pending)
    IN  IF n \notin DOMAIN N
        THEN [walk EXCEPT !.pending = Tail(@)]
        ELSE [walk EXCEPT !.pending = Listed(Children(N, R, n)) \o Tail(@),
                          !.visited = @ \cup {n},
                          !.expanded = Append(@, n)]

\* a step of browseTree: the next node is taken from the nodes still to be
\* walked; a node the walk has visited is passed over, any other is marked
\* visited and expanded, its children joining the nodes to be walked
Expand(N, R, walk) ==
    LET n == Head(walk.pending)
    IN  IF n \in walk.visited \/ n \notin DOMAIN N
        THEN [walk EXCEPT !.pending = Tail(@)]
        ELSE [walk EXCEPT !.pending = Listed(Children(N, R, n)) \o Tail(@),
                          !.visited = @ \cup {n},
                          !.expanded = Append(@, n)]

\* a lookup that never finds the child
GetChildFindsNothing(N, R, start, childName) == NodeIdNull

\* getChild's lookup: the first child of start with the browse name, or null
GetChild(N, R, start, childName) ==
    LET found == ChildrenNamed(N, R, start, childName)
    IN  IF found = {} THEN NodeIdNull
        ELSE CHOOSE c \in found : \A d \in found : Before(c, d)

\* how many leading segments of the path resolve to existing children
RECURSIVE Resolved(_, _, _, _)
Resolved(N, R, start, path) ==
    IF path = <<>> THEN 0
    ELSE LET c == GetChild(N, R, start, Head(path))
         IN  IF c = NodeIdNull THEN 0 ELSE 1 + Resolved(N, R, c, Tail(path))

\* a translation that takes the first of several children with the name
RECURSIVE TranslatePicksFirst(_, _, _, _)
TranslatePicksFirst(N, R, origin, path) ==
    IF origin \notin DOMAIN N
    THEN [statusCode |-> "NodeNotFound", target |-> NodeIdNull]
    ELSE IF path = <<>> THEN [statusCode |-> Good, target |-> origin]
    ELSE LET c == GetChild(N, R, origin, Head(path))
         IN  IF c = NodeIdNull
             THEN [statusCode |-> "NotFound", target |-> NodeIdNull]
             ELSE TranslatePicksFirst(N, R, c, Tail(path))

\* UA_Server_translateBrowsePathToNodeIds: walks the browse names of the path
\* from the origin along forward hierarchical references; a segment with no
\* candidate, or with more than one, gives a result without a target
RECURSIVE UA_Server_translateBrowsePathToNodeIds(_, _, _, _)
UA_Server_translateBrowsePathToNodeIds(N, R, origin, path) ==
    IF origin \notin DOMAIN N
    THEN [statusCode |-> "NodeNotFound", target |-> NodeIdNull]
    ELSE IF path = <<>> THEN [statusCode |-> Good, target |-> origin]
    ELSE LET found == ChildrenNamed(N, R, origin, Head(path))
         IN  IF found = {}
             THEN [statusCode |-> "NotFound", target |-> NodeIdNull]
             ELSE IF Cardinality(found) > 1
             THEN [statusCode |-> "Ambiguous", target |-> NodeIdNull]
             ELSE UA_Server_translateBrowsePathToNodeIds(
                      N, R, CHOOSE c \in found : TRUE, Tail(path))

\* some segment of the path, reached through segments with one candidate
\* each, has two or more candidates
RECURSIVE AmbiguousSegment(_, _, _, _)
AmbiguousSegment(N, R, origin, path) ==
    /\ path # <<>>
    /\ LET found == ChildrenNamed(N, R, origin, Head(path))
       IN  \/ Cardinality(found) > 1
           \/ /\ Cardinality(found) = 1
              /\ AmbiguousSegment(N, R, CHOOSE c \in found : TRUE, Tail(path))

\* UA_Server_call up to the invocation of the method callback: the method and
\* the object are looked up and the number of inputs is compared with the
\* number registered for the method node
UA_Server_call(N, methodId, objectId, inputSize) ==
    IF methodId \notin DOMAIN N \/ objectId \notin DOMAIN N
    THEN "NodeNotFound"
    ELSE IF N[methodId].cls # "Method"
    THEN "AttributeNotApplicable"
    ELSE IF inputSize # N[methodId].method.inputs
    THEN "ArgumentCountMismatch"
    ELSE Good

(***************************************************************************)
(* The Server object and the threads that call it.                         *)
(*   pc = "idle"     no operation in progress                              *)
(*        "entry"    inside a Server method, before its engine call        *)
(*        "engine"   inside the engine call of the method                  *)
(*        "handler"  inside the body of a method handler (under call)      *)
(*        "blocked"  waiting for ever on the mutex the thread itself owns  *)
(*        "aborted"  the process was ended by an exception nobody catches  *)
(***************************************************************************)
AddKinds == {"addObjectNode", "addVariableNode", "addObjectTypeNode",
             "addFolder", "addServerMethod", "addVariable"}
\* the operations that add or delete a node or a reference
StructuralKinds == {"deleteNode", "addReference", "deleteReference"} \cup AddKinds

\* a SeverRepeatedCallback after its constructor: not registered with the
\* event loop (_id = 0).  copies counts the SeverRepeatedCallbackRef copies
\* that callers hold, held says that the registry has held the object, and
\* last, was, starts and first remember the calls made on the object: the last
\* one, whether the object was Running before it, the start() calls since the
\* last stop() (counted up to two), and the handle the first of them obtained.
SeverRepeatedCallback(interval) ==
    [life |-> "alive", id |-> 0, interval |-> interval, copies |-> 0,
     held |-> FALSE, last |-> "constructed", was |-> FALSE, starts |-> 0,
     first |-> 0]
NotConstructed ==
    [life |-> "none", id |-> 0, interval |-> 0, copies |-> 0,
     held |-> FALSE, last |-> "none", was |-> FALSE, starts |-> 0, first |-> 0]

\* the engine's timers: registerTimer hands out a new handle, changeTimer
\* gives the timer of a handle a new interval, cancelTimer forgets it
registerTimer(L, interval, data) ==
    [L EXCEPT !.timers = @ \cup {[handle |-> L.next + 1, data |-> data,
                                  interval |-> interval]},
              !.next = @ + 1]
changeTimer(L, handle, interval) ==
    [L EXCEPT !.timers = {[x EXCEPT !.interval = IF x.handle = handle
                                                  THEN interval ELSE @] : x \in @}]
cancelTimer(L, handle) ==
    [L EXCEPT !.timers = {x \in @ : x.handle # handle}]
TimersOf(L, o) == {x \in L.timers : x.data = o}

\* the namespace array of a new engine: index 0 is the standard namespace.
\* A namespace name is a pair of a prefix and a number
BuiltInNamespaces == << <<"http://opcfoundation.org/UA/", 0>> >>
NamespaceUri(k) == <<"urn:test:test", k>>
NamespaceNames == {NamespaceUri(k) : k \in 1..MaxNamespaces}
\* the indices a namespace of an engine can have
NamespaceIndices == 0..MaxNamespaces

\* UA_Server_addNamespace giving every name the first index after the
\* standard namespace
UA_Server_addNamespaceAtFront(array, name) ==
    [array |-> <<array[1], name>> \o SubSeq(array, 2, Len(array)), index |-> 1]

\* UA_Server_addNamespace: the name is put at the end of the namespace array
\* and its index, a UA_UInt16, is returned
UA_Server_addNamespace(array, name) ==
    [array |-> Append(array, name), index |-> Len(array) % 65536]

\* Server::Server: _server = UA_Server_new(), _config = UA_Server_getConfig
\* only when the engine was allocated; _running starts false.  The counters
\* of `life' record the calls of the virtual hooks, and stopped and atStop
\* that stop() was called during a run and after how many iterations
\* std::map<UA_Server*, Server*> _serverMap, as the set of its entries; the
\* engine of a Server is entered with the Server that made it
NullServer == "nullptr"
Registered(server) ==
    IF server THEN {[handle |-> "_server", server |-> "this"]} ELSE {}
\* _serverMap[s]: the Server of the entry, and the map with an entry of a null
\* Server added for a handle that had none
serverMapAt(map, s) ==
    IF \E e \in map : e.handle = s
    THEN [server |-> (CHOOSE e \in map : e.handle = s).server, map |-> map]
    ELSE [server |-> NullServer,
          map |-> map \cup {[handle |-> s, server |-> NullServer]}]

NewLife(server, config) ==
    [server |-> server, config |-> config, built |-> server /\ config,
     serverMap |-> Registered(server),
     running |-> FALSE, at |-> "constructed",
     initialised |-> 0, iterations |-> 0, processed |-> 0, terminated |-> 0,
     stopped |-> FALSE, atStop |-> 0]

\* the Server after construction: the engine holds the standard nodes, of
\* which the model keeps the Objects folder
ConstructedWith(server, config) ==
    /\ nodes = [x \in {NodeIdObjects} |->
                   NewNode("Object", <<0, "Objects">>, NullVariant, {}, NoContext, NoOp)]
    /\ refs = {}
    /\ nextAuto = 0
    /\ mutex = Free
    /\ lastError = Good
    /\ pc = [t \in Threads |-> "idle"]
    /\ op = [t \in Threads |-> NoOp]
    /\ handler = [t \in Threads |-> NoOp]
    /\ torn = {}
    /\ notes = [wrote |-> Nothing, removed |-> {}, path |-> Nothing, registered |-> {},
                destructed |-> {}, assigned |-> <<>>]
    /\ callbacks = [n \in CallbackNames |-> NoCallback]
    /\ repeated = [o \in CallbackIds |->
                      IF o = RepeatedEvent THEN SeverRepeatedCallback(2000)
                      ELSE NotConstructed]
    /\ loop = [timers |-> {}, next |-> 0, body |-> NoCallback, running |-> TRUE]
    /\ life = NewLife(server, config)
    /\ namespaces = BuiltInNamespaces

\* a Server whose engine was allocated and configured
Constructed == ConstructedWith(TRUE, TRUE)

\* the host's worker threads, which drop the results of their calls
Init ==
    /\ Constructed
    /\ ret = [t \in Threads |-> Discarded]

\* callers whose results are observed
InitObserved ==
    /\ Constructed
    /\ ret = [t \in Threads |-> NoOp]

Observed(t) == ret[t] # Discarded

\* Server::lastOK applied to a value of _lastError
lastOK(e) == e = Good

\* how many auto-assigned identifiers an operation can still consume; the
\* engine's supply is capped at MaxAuto
AutoIdsNeeded(o) ==
    CASE o.kind = "createFolderPath" ->
            IF \A t \in Threads : op[t] = NoOp
            THEN Len(o.path) - Resolved(nodes, refs, o.start, o.path)
            ELSE Len(o.path) - o.level
      [] o.kind \in AddKinds -> IF IsAutoRequest(o.requestedId) THEN 1 ELSE 0
      [] OTHER -> 0
RECURSIVE SumNeeded(_)
SumNeeded(T) ==
    IF T = {} THEN 0
    ELSE LET x == CHOOSE y \in T : TRUE
         IN  AutoIdsNeeded(op[x]) + AutoIdsNeeded(handler[x]) + SumNeeded(T \ {x})

\* a caller (initialise, a repeated callback, a worker thread of the host, or
\* the body of a method handler) enters a Server method with its arguments
Invoke(t, requests) ==
    /\ pc[t] \in {"idle", "handler"}
    /\ \E o \in requests :
          /\ nextAuto + AutoIdsNeeded(o) + SumNeeded(Threads \ {t}) <= MaxAuto
          /\ op' = [op EXCEPT ![t] = o]
    /\ pc' = [pc EXCEPT ![t] = "entry"]
    /\ UNCHANGED <<store, mutex, lastError, handler, ret, torn, notes, scheduler, engine>>

\* The methods that test server() return before they reach their lock or
\* their engine call when the engine handle is null (returnsWithoutServer).
\* WriteLock l(_mutex): exclusive and not reentrant.  Taken by the thread that
\* owns it already the behaviour is undefined: the thread waits for ever, or
\* the lock throws and the exception ends the process.
WriteLock(t) ==
    \/ /\ life.server
       /\ mutex = Free
       /\ mutex' = t
       /\ pc' = [pc EXCEPT ![t] = "engine"]
    \/ /\ life.server
       /\ mutex = t
       /\ mutex' = mutex
       /\ \/ pc' = [pc EXCEPT ![t] = "blocked"]
          \/ pc' = [x \in Threads |-> "aborted"]

\* a method without a WriteLock goes straight into its engine call
NoLock(t) ==
    /\ life.server
    /\ pc' = [pc EXCEPT ![t] = "engine"]
    /\ mutex' = mutex

\* the method returns r to its caller, who notes n
Return(t, r, n) ==
    /\ ret' = [ret EXCEPT ![t] = IF Observed(t) THEN r ELSE @]
    /\ notes' = IF Observed(t) THEN n ELSE notes
    /\ op' = [op EXCEPT ![t] = NoOp]
    /\ pc' = [pc EXCEPT ![t] = IF handler[t] = NoOp THEN "idle" ELSE "handler"]

\* the WriteLock of the method goes out of scope
Unlock == mutex' = Free

\* what the caller remembers: the value it last wrote with success and of
\* which node, the ids it saw removed with their references, and its last
\* createFolderPath when no other call followed it, and the ServerMethods it
\* registered with the numbers of arguments it constructed them with
AfterWrite(nodeId, v, ok) ==
    [notes EXCEPT !.wrote = IF ok THEN [nodeId |-> nodeId, value |-> v]
                            ELSE IF @.nodeId = nodeId THEN Nothing ELSE @,
                  !.path = Nothing]
\* the caller also remembers, of the last deletion of each node, the context
\* the node had and the destruct notifications that were delivered
AfterDestruct(n, nodeId, context, hooks) ==
    [n EXCEPT !.destructed = {d \in @ : d.nodeId # nodeId}
                             \cup {[nodeId |-> nodeId, context |-> context,
                                    hooks |-> hooks]}]
AfterDelete(nodeId, deleteReferences, status) ==
    IF status # Good THEN [notes EXCEPT !.path = Nothing]
    ELSE [notes EXCEPT !.removed = IF deleteReferences THEN @ \cup {nodeId}
                                   ELSE @ \ {nodeId},
                       !.wrote = IF @.nodeId = nodeId THEN Nothing ELSE @,
                       !.registered = {e \in @ : e.nodeId # nodeId},
                       !.path = Nothing]
AfterAdd(o, newId, status) ==
    [notes EXCEPT !.removed = IF status = Good THEN @ \ {newId} ELSE @,
                  !.registered =
                      IF status = Good /\ o.kind = "addServerMethod"
                      THEN @ \cup {[nodeId |-> newId, nInputs |-> o.nInputs,
                                     nOutputs |-> o.nOutputs]}
                      ELSE @,
                  !.path = Nothing]
AfterOther == [notes EXCEPT !.path = Nothing]
AfterPath(o, leaf, N) ==
    LET again == /\ notes.path # Nothing
                 /\ notes.path.start = o.start
                 /\ notes.path.names = o.path
                 /\ notes.path.ns = o.ns
    IN  [notes EXCEPT !.path =
            [nodeId |-> leaf, start |-> o.start, names |-> o.path, ns |-> o.ns,
             domain |-> DOMAIN N, again |-> again,
             before |-> IF again THEN [nodeId |-> @.nodeId, domain |-> @.domain]
                        ELSE [nodeId |-> NodeIdNull, domain |-> {}]]]

Result(o, status, ok, out) == [op |-> o, status |-> status, ok |-> ok, out |-> out]

\* the threads that are inside an engine read of the Value of nodeId
ValueReaders(nodeId) ==
    {r \in Threads : /\ pc[r] = "engine"
                     /\ op[r].kind = "readAttribute"
                     /\ op[r].nodeId = nodeId /\ op[r].attr = "Value"}
\* the threads that are inside an engine write of the Value of nodeId
ValueWriters(nodeId) ==
    {w \in Threads : /\ pc[w] = "engine"
                     /\ op[w].kind \in {"writeValue", "writeAttribute"}
                     /\ op[w].nodeId = nodeId
                     /\ op[w].kind = "writeAttribute" => op[w].attr = "Value"}

\* bool readAttribute(nodeId, attributeId, v); readValue, readAccessLevel
\* and the other read* methods pass their attribute id to it
readAttribute(t) ==
    /\ op[t].kind = "readAttribute"
    /\ \/ /\ pc[t] = "entry"
          /\ WriteLock(t)
          /\ UNCHANGED <<store, lastError, op, handler, ret, torn, notes, scheduler, engine>>
       \/ /\ pc[t] = "engine"
          /\ LET r == UA_Server_read(nodes, op[t].nodeId, op[t].attr)
                 raced == /\ op[t].attr = "Value" /\ r.status = Good
                          /\ (t \in torn \/ ValueWriters(op[t].nodeId) \ {t} # {})
             IN  /\ lastError' = r.status
                 /\ \E v \in (IF raced THEN Variants ELSE {r.value}) :
                       Return(t, Result(op[t], r.status, lastOK(r.status), v),
                              AfterOther)
          /\ Unlock
          /\ torn' = torn \ {t}
          /\ UNCHANGED <<store, handler, scheduler, engine>>

\* bool writeAttribute(nodeId, attributeId, attr_type, attr); writeAccessLevel,
\* writeBrowseName and the other write* methods except writeValue pass their
\* attribute id to it
writeAttribute(t) ==
    /\ op[t].kind = "writeAttribute"
    /\ \/ /\ pc[t] = "entry"
          /\ WriteLock(t)
          /\ UNCHANGED <<store, lastError, op, handler, ret, torn, notes, scheduler, engine>>
       \/ /\ pc[t] = "engine"
          /\ LET r == UA_Server_write(nodes, op[t].nodeId, op[t].attr, op[t].value)
                 e == BoolStatus(r.status = Good)
             IN  /\ nodes' = r.nodes
                 /\ lastError' = e
                 /\ Return(t, Result(op[t], r.status, lastOK(e), op[t].value),
                            IF op[t].attr = "Value"
                            THEN AfterWrite(op[t].nodeId, op[t].value, lastOK(e))
                            ELSE AfterOther)
                 /\ torn' = IF op[t].attr = "Value" /\ r.status = Good
                            THEN torn \cup ValueReaders(op[t].nodeId) ELSE torn
          /\ Unlock
          /\ UNCHANGED <<refs, nextAuto, handler, scheduler, engine>>

\* bool writeArrayDimensions(nodeId, arrayDimensions): passes
\* UA_ATTRIBUTEID_VALUE to writeAttribute
writeArrayDimensions(t) ==
    /\ op[t].kind = "writeArrayDimensions"
    /\ \/ /\ pc[t] = "entry"
          /\ WriteLock(t)
          /\ UNCHANGED <<store, lastError, op, handler, ret, torn, notes, scheduler, engine>>
       \/ /\ pc[t] = "engine"
          /\ LET r == UA_Server_write(nodes, op[t].nodeId, "Value", op[t].arrayDimensions)
                 e == BoolStatus(r.status = Good)
             IN  /\ nodes' = r.nodes
                 /\ lastError' = e
                 /\ Return(t, Result(op[t], r.status, lastOK(e), op[t].arrayDimensions),
                            AfterWrite(op[t].nodeId, op[t].arrayDimensions, lastOK(e)))
                 /\ torn' = IF r.status = Good
                            THEN torn \cup ValueReaders(op[t].nodeId) ELSE torn
          /\ Unlock
          /\ UNCHANGED <<refs, nextAuto, handler, scheduler, engine>>

\* bool writeValue(nodeId, value)
writeValue(t) ==
    /\ op[t].kind = "writeValue"
    /\ \/ /\ pc[t] = "entry"
          /\ NoLock(t)
          /\ UNCHANGED <<store, lastError, op, handler, ret, torn, notes, scheduler, engine>>
       \/ /\ pc[t] = "engine"
          /\ LET r == UA_Server_write(nodes, op[t].nodeId, "Value", op[t].value)
             IN  /\ nodes' = r.nodes
                 /\ lastError' = r.status
                 /\ Return(t, Result(op[t], r.status, Good = r.status, op[t].value),
                            AfterWrite(op[t].nodeId, op[t].value, Good = r.status))
                 /\ torn' = IF r.status = Good
                            THEN torn \cup (ValueReaders(op[t].nodeId) \ {t}) ELSE torn
          /\ UNCHANGED <<refs, nextAuto, mutex, handler, scheduler, engine>>

\* bool setReadOnly(nodeId, historyEnable): readAccessLevel, then
\* writeAccessLevel with the write bits removed and the read bits added; each
\* is a readAttribute / writeAttribute call under its own WriteLock
setReadOnly(t) ==
    /\ op[t].kind = "setReadOnly"
    /\ LET o == op[t]
       IN  \/ /\ pc[t] = "entry"
              /\ WriteLock(t)
              /\ UNCHANGED <<store, lastError, op, handler, ret, torn, notes, scheduler, engine>>
           \/ /\ pc[t] = "engine"
              /\ o.step = "readAccessLevel"
              /\ LET r == UA_Server_read(nodes, o.nodeId, "AccessLevel")
                 IN  /\ lastError' = r.status
                     /\ IF lastOK(r.status)
                        THEN /\ op' = [op EXCEPT ![t] =
                                  [o EXCEPT !.step = "writeAccessLevel",
                                            !.accessLevel =
                                                ((r.value \ {"WRITE", "HISTORYWRITE"})
                                                 \cup {"READ"})
                                                \cup (IF o.historyEnable
                                                      THEN {"HISTORYREAD"} ELSE {})]]
                             /\ pc' = [pc EXCEPT ![t] = "entry"]
                             /\ UNCHANGED <<ret, notes>>
                        ELSE Return(t, Result(o, r.status, FALSE, NodeIdNull), AfterOther)
              /\ Unlock
              /\ UNCHANGED <<store, handler, torn, scheduler, engine>>
           \/ /\ pc[t] = "engine"
              /\ o.step = "writeAccessLevel"
              /\ LET r == UA_Server_write(nodes, o.nodeId, "AccessLevel", o.accessLevel)
                     e == BoolStatus(r.status = Good)
                 IN  /\ nodes' = r.nodes
                     /\ lastError' = e
                     /\ Return(t, Result(o, r.status, lastOK(e), NodeIdNull), AfterOther)
              /\ Unlock
              /\ UNCHANGED <<refs, nextAuto, handler, torn, scheduler, engine>>

\* bool writeEnable(nodeId): readAccessLevel, then writeAccessLevel with the
\* write bit added; each is a readAttribute / writeAttribute call under its
\* own WriteLock
writeEnable(t) ==
    /\ op[t].kind = "writeEnable"
    /\ LET o == op[t]
       IN  \/ /\ pc[t] = "entry"
              /\ WriteLock(t)
              /\ UNCHANGED <<store, lastError, op, handler, ret, torn, notes, scheduler, engine>>
           \/ /\ pc[t] = "engine"
              /\ o.step = "readAccessLevel"
              /\ LET r == UA_Server_read(nodes, o.nodeId, "AccessLevel")
                 IN  /\ lastError' = r.status
                     /\ IF lastOK(r.status)
                        THEN /\ op' = [op EXCEPT ![t] =
                                  [o EXCEPT !.step = "writeAccessLevel",
                                            !.accessLevel = r.value \cup {"WRITE"}]]
                             /\ pc' = [pc EXCEPT ![t] = "entry"]
                             /\ UNCHANGED <<ret, notes>>
                        ELSE Return(t, Result(o, r.status, FALSE, NodeIdNull), AfterOther)
              /\ Unlock
              /\ UNCHANGED <<store, handler, torn, scheduler, engine>>
           \/ /\ pc[t] = "engine"
              /\ o.step = "writeAccessLevel"
              /\ LET r == UA_Server_write(nodes, o.nodeId, "AccessLevel", o.accessLevel)
                     e == BoolStatus(r.status = Good)
                 IN  /\ nodes' = r.nodes
                     /\ lastError' = e
                     /\ Return(t, Result(o, r.status, lastOK(e), NodeIdNull), AfterOther)
              /\ Unlock
              /\ UNCHANGED <<refs, nextAuto, handler, torn, scheduler, engine>>

\* NodeId::notNull: the receiver becomes the numeric id 0 of namespace 1
notNull == <<1, 0>>

\* a receiver that takes the requested id whatever the engine answers
ReceivedRequested(o, r) ==
    IF ~o.receiver THEN NodeIdNull
    ELSE IF IsAutoRequest(o.requestedId) THEN r.newId ELSE o.requestedId

\* outNewNodeId after the engine call: outNewNodeId.isNull() ? nullptr :
\* a receiver that is handed to the engine without the test of isNull()
ReceivedUntested(o, r) ==
    IF r.status = Good THEN r.newId ELSE notNull

\* outNewNodeId.ref() hands a receiver marked with notNull() to the engine,
\* which puts the id of the new node into it when it has added the node
Received(o, r) ==
    IF ~o.receiver THEN NodeIdNull
    ELSE IF r.status = Good THEN r.newId ELSE notNull

\* an add that returns _lastError != UA_STATUSCODE_GOOD, as deleteNode does
AddNodeCallInverted(t, refType, node) ==
    LET r == UA_Server_addNode(nodes, refs, nextAuto, op[t].requestedId,
                               op[t].parentId, refType, node)
    IN  /\ nodes' = r.nodes
        /\ refs' = r.refs
        /\ nextAuto' = r.nextAuto
        /\ lastError' = r.status
        /\ Return(t, Result(op[t], r.status, r.status # Good,
                            Received(op[t], r)),
                   AfterAdd(op[t], r.newId, r.status))

\* _lastError = UA_Server_add...Node(...); return lastOK();
\* outNewNodeId receives the new id unless it is null
AddNodeCall(t, refType, node) ==
    LET r == UA_Server_addNode(nodes, refs, nextAuto, op[t].requestedId,
                               op[t].parentId, refType, node)
    IN  /\ nodes' = r.nodes
        /\ refs' = r.refs
        /\ nextAuto' = r.nextAuto
        /\ lastError' = r.status
        /\ Return(t, Result(op[t], r.status, lastOK(r.status),
                            Received(op[t], r)),
                   AfterAdd(op[t], r.newId, r.status))

\* bool addVariableNode(requestedNewNodeId, parentNodeId, referenceTypeId,
\*                      browseName, typeDefinition, attr, outNewNodeId, nc)
addVariableNode(t) ==
    /\ op[t].kind = "addVariableNode"
    /\ \/ /\ pc[t] = "entry"
          /\ WriteLock(t)
          /\ UNCHANGED <<store, lastError, op, handler, ret, torn, notes, scheduler, engine>>
       \/ /\ pc[t] = "engine"
          /\ AddNodeCall(t, op[t].refType, NewNode("Variable", op[t].browseName,
                                    op[t].value, op[t].accessLevel, op[t].context, NoOp))
          /\ Unlock
          /\ UNCHANGED <<handler, torn, scheduler, engine>>

\* bool addObjectNode(requestedNewNodeId, parentNodeId, referenceTypeId,
\*                    browseName, typeDefinition, attr, outNewNodeId, nc)
addObjectNode(t) ==
    /\ op[t].kind = "addObjectNode"
    /\ \/ /\ pc[t] = "entry"
          /\ WriteLock(t)
          /\ UNCHANGED <<store, lastError, op, handler, ret, torn, notes, scheduler, engine>>
       \/ /\ pc[t] = "engine"
          /\ AddNodeCall(t, op[t].refType, NewNode("Object", op[t].browseName,
                                    NullVariant, {}, op[t].context, NoOp))
          /\ Unlock
          /\ UNCHANGED <<handler, torn, scheduler, engine>>

\* bool addObjectTypeNode(requestedNewNodeId, parentNodeId, referenceTypeId,
\*                        browseName, attr, outNewNodeId, nc)
addObjectTypeNode(t) ==
    /\ op[t].kind = "addObjectTypeNode"
    /\ \/ /\ pc[t] = "entry"
          /\ NoLock(t)
          /\ UNCHANGED <<store, lastError, op, handler, ret, torn, notes, scheduler, engine>>
       \/ /\ pc[t] = "engine"
          /\ AddNodeCall(t, op[t].refType, NewNode("ObjectType", op[t].browseName,
                                    NullVariant, {}, op[t].context, NoOp))
          /\ UNCHANGED <<mutex, handler, torn, scheduler, engine>>

\* a deleteNode that leaves the references of the other nodes in place
deleteNodeKeepsReferences(t) ==
    /\ op[t].kind = "deleteNode"
    /\ \/ /\ pc[t] = "entry"
          /\ WriteLock(t)
          /\ UNCHANGED <<store, lastError, op, handler, ret, torn, notes, scheduler, engine>>
       \/ /\ pc[t] = "engine"
          /\ LET r == UA_Server_deleteNode(nodes, refs, op[t].nodeId, FALSE)
             IN  /\ nodes' = r.nodes
                 /\ refs' = r.refs
                 /\ lastError' = r.status
                 /\ Return(t, Result(op[t], r.status, r.status # Good, NodeIdNull),
                            AfterDelete(op[t].nodeId, op[t].deleteReferences, r.status))
          /\ Unlock
          /\ UNCHANGED <<nextAuto, handler, torn, scheduler, engine>>

\* bool deleteNode(nodeId, deleteReferences)
deleteNode(t) ==
    /\ op[t].kind = "deleteNode"
    /\ \/ /\ pc[t] = "entry"
          /\ WriteLock(t)
          /\ UNCHANGED <<store, lastError, op, handler, ret, torn, notes, scheduler, engine>>
       \/ /\ pc[t] = "engine"
          /\ LET r == UA_Server_deleteNode(nodes, refs, op[t].nodeId, op[t].deleteReferences)
                 done == AfterDelete(op[t].nodeId, op[t].deleteReferences, r.status)
             IN  /\ nodes' = r.nodes
                 /\ refs' = r.refs
                 /\ lastError' = r.status
                 /\ Return(t, Result(op[t], r.status, r.status # Good, NodeIdNull),
                            IF r.status # Good THEN done
                            ELSE AfterDestruct(done, op[t].nodeId,
                                               nodes[op[t].nodeId].context,
                                               r.destructs))
          /\ Unlock
          /\ UNCHANGED <<nextAuto, handler, torn, scheduler, engine>>

\* bool addReference(sourceId, refTypeId, targetId, isForward)
addReference(t) ==
    /\ op[t].kind = "addReference"
    /\ \/ /\ pc[t] = "entry"
          /\ WriteLock(t)
          /\ UNCHANGED <<store, lastError, op, handler, ret, torn, notes, scheduler, engine>>
       \/ /\ pc[t] = "engine"
          /\ LET r == UA_Server_addReference(nodes, refs, op[t].sourceId,
                                             op[t].refType, op[t].targetId)
             IN  /\ refs' = r.refs
                 /\ lastError' = r.status
                 /\ Return(t, Result(op[t], r.status, lastOK(r.status), NodeIdNull),
                            AfterOther)
          /\ Unlock
          /\ UNCHANGED <<nodes, nextAuto, handler, torn, scheduler, engine>>

\* bool browseTree(nodeId, tree): walks the forward hierarchical references
\* from nodeId, one node per step, and returns the nodes it expanded
browseTree(t) ==
    /\ op[t].kind = "browseTree"
    /\ \/ /\ pc[t] = "entry"
          /\ WriteLock(t)
          /\ UNCHANGED <<store, lastError, op, handler, ret, torn, notes, scheduler, engine>>
       \/ /\ pc[t] = "engine"
          /\ op[t].pending # <<>>
          /\ op' = [op EXCEPT ![t] = Expand(nodes, refs, op[t])]
          /\ UNCHANGED <<store, mutex, lastError, pc, handler, ret, torn, notes,
                         scheduler, engine>>
       \/ /\ pc[t] = "engine"
          /\ op[t].pending = <<>>
          /\ Return(t, Result(op[t], lastError, op[t].expanded # <<>>, op[t].expanded),
                    AfterOther)
          /\ Unlock
          /\ UNCHANGED <<store, lastError, handler, torn, scheduler, engine>>

\* bool deleteReference(sourceNodeId, referenceTypeId, isForward, targetNodeId,
\*                      deleteBidirectional)
deleteReference(t) ==
    /\ op[t].kind = "deleteReference"
    /\ \/ /\ pc[t] = "entry"
          /\ WriteLock(t)
          /\ UNCHANGED <<store, lastError, op, handler, ret, torn, notes, scheduler, engine>>
       \/ /\ pc[t] = "engine"
          /\ LET r == UA_Server_deleteReference(nodes, refs, op[t].sourceId,
                                                op[t].refType, op[t].targetId)
             IN  /\ refs' = r.refs
                 /\ lastError' = r.status
                 /\ Return(t, Result(op[t], r.status, lastOK(r.status), NodeIdNull),
                            AfterOther)
          /\ Unlock
          /\ UNCHANGED <<nodes, nextAuto, handler, torn, scheduler, engine>>

\* a nameSpaceIndex argument that is used as it is given
AsGiven(parent, nameSpaceIndex) == nameSpaceIndex

\* if (nameSpaceIndex == 0) nameSpaceIndex = parent.nameSpaceIndex();
InheritParent(parent, nameSpaceIndex) ==
    IF nameSpaceIndex = 0 THEN parent[1] ELSE nameSpaceIndex

\* a Folder: an Object node; its browse name is in nameSpaceIndex when that is
\* not 0 and in the namespace of the parent otherwise
FolderNode(parent, childName, nameSpaceIndex) ==
    NewNode("Object",
            <<IF nameSpaceIndex = 0 THEN parent[1] ELSE nameSpaceIndex, childName>>,
            NullVariant, {}, NoContext, NoOp)

\* bool addFolder(parent, childName, nodeId, newNode, nameSpaceIndex)
addFolder(t) ==
    /\ op[t].kind = "addFolder"
    /\ \/ /\ pc[t] = "entry"
          /\ WriteLock(t)
          /\ UNCHANGED <<store, lastError, op, handler, ret, torn, notes, scheduler, engine>>
       \/ /\ pc[t] = "engine"
          /\ AddNodeCall(t, "Organizes",
                         FolderNode(op[t].parentId, op[t].browseName, op[t].nameSpaceIndex))
          /\ Unlock
          /\ UNCHANGED <<handler, torn, scheduler, engine>>

\* bool addVariable(parent, childName, value, nodeId, newNode, c,
\*                  nameSpaceIndex): a Variable node with the namespace rule of
\* addFolder for its browse name
addVariable(t) ==
    /\ op[t].kind = "addVariable"
    /\ \/ /\ pc[t] = "entry"
          /\ WriteLock(t)
          /\ UNCHANGED <<store, lastError, op, handler, ret, torn, notes, scheduler, engine>>
       \/ /\ pc[t] = "engine"
          /\ LET nameSpaceIndex == InheritParent(op[t].parentId, op[t].nameSpaceIndex)
             IN  AddNodeCall(t, "Organizes",
                     NewNode("Variable", <<nameSpaceIndex, op[t].browseName>>,
                             op[t].value, {"READ", "WRITE"}, op[t].context, NoOp))
          /\ Unlock
          /\ UNCHANGED <<handler, torn, scheduler, engine>>

\* bool createFolderPath(start, path, nameSpaceIndex, nodeId): for each segment
\* of the path, getChild finds the child of that name under the current node,
\* or addFolder creates it with an identifier assigned by the engine; getChild
\* and addFolder are calls of their own, each under its own WriteLock
createFolderPath(t) ==
    /\ op[t].kind = "createFolderPath"
    /\ LET o == op[t]
           last == o.level + 1 = Len(o.path)
           on(c, step) == [o EXCEPT !.level = @ + 1, !.cur = c, !.step = step]
       IN  \/ /\ pc[t] = "entry"
              /\ WriteLock(t)
              /\ UNCHANGED <<store, lastError, op, handler, ret, torn, notes, scheduler, engine>>
           \/ /\ pc[t] = "engine"
              /\ o.step = "getChild"
              /\ LET c == GetChild(nodes, refs, o.cur, o.path[o.level + 1])
                 IN  IF c # NodeIdNull /\ last
                     THEN Return(t, Result(o, Good, TRUE, c), AfterPath(o, c, nodes))
                     ELSE /\ op' = [op EXCEPT ![t] =
                                       IF c = NodeIdNull
                                       THEN [o EXCEPT !.step = "addFolder"]
                                       ELSE on(c, "getChild")]
                          /\ pc' = [pc EXCEPT ![t] = "entry"]
                          /\ UNCHANGED <<ret, notes>>
              /\ Unlock
              /\ UNCHANGED <<store, lastError, handler, torn, scheduler, engine>>
           \/ /\ pc[t] = "engine"
              /\ o.step = "addFolder"
              /\ LET r == UA_Server_addNode(nodes, refs, nextAuto, <<o.ns, 0>>, o.cur,
                                "Organizes", FolderNode(o.cur, o.path[o.level + 1], o.ns))
                 IN  /\ nodes' = r.nodes
                     /\ refs' = r.refs
                     /\ nextAuto' = r.nextAuto
                     /\ lastError' = r.status
                     /\ IF r.status # Good
                        THEN Return(t, Result(o, r.status, FALSE, NodeIdNull), AfterOther)
                        ELSE IF last
                        THEN Return(t, Result(o, Good, TRUE, r.newId),
                                    AfterPath(o, r.newId, r.nodes))
                        ELSE /\ op' = [op EXCEPT ![t] = on(r.newId, "getChild")]
                             /\ pc' = [pc EXCEPT ![t] = "entry"]
                             /\ UNCHANGED <<ret, notes>>
              /\ Unlock
              /\ UNCHANGED <<handler, torn, scheduler, engine>>

\* a constructor that sizes the parameter space without the spare element
ServerMethodNoSpare(nInputs, nOutputs) == [in |-> nInputs, out |-> nOutputs]

\* ServerMethod::ServerMethod(n, nInputs, nOutputs): the parameter space
ServerMethod(nInputs, nOutputs) == [in |-> nInputs + 1, out |-> nOutputs + 1]

\* an addServerMethod that passes the sizes of in() and out() as they are
addServerMethodFullSize(t) ==
    /\ op[t].kind = "addServerMethod"
    /\ \/ /\ pc[t] = "entry"
          /\ WriteLock(t)
          /\ UNCHANGED <<store, lastError, op, handler, ret, torn, notes, scheduler, engine>>
       \/ /\ pc[t] = "engine"
          /\ LET nameSpaceIndex == InheritParent(op[t].parentId, op[t].nameSpaceIndex)
             IN  AddNodeCall(t, "HasOrderedComponent",
                     NewNode("Method", <<nameSpaceIndex, op[t].browseName>>,
                             NullVariant, {}, "method",
                             [inputs |-> op[t].method.in,
                              outputs |-> op[t].method.out]))
          /\ Unlock
          /\ UNCHANGED <<handler, torn, scheduler, engine>>

\* bool addServerMethod(method, browseName, parent, nodeId, newNode, nameSpaceIndex)
addServerMethod(t) ==
    /\ op[t].kind = "addServerMethod"
    /\ \/ /\ pc[t] = "entry"
          /\ WriteLock(t)
          /\ UNCHANGED <<store, lastError, op, handler, ret, torn, notes, scheduler, engine>>
       \/ /\ pc[t] = "engine"
          /\ LET nameSpaceIndex == InheritParent(op[t].parentId, op[t].nameSpaceIndex)
             IN  AddNodeCall(t, "HasOrderedComponent",
                     NewNode("Method", <<nameSpaceIndex, op[t].browseName>>,
                             NullVariant, {}, "method",
                             [inputs |-> op[t].method.in - 1,
                              outputs |-> op[t].method.out - 1]))
          /\ Unlock
          /\ UNCHANGED <<handler, torn, scheduler, engine>>

\* bool call(request, ret): the WriteLock is held from before UA_Server_call
\* until the method returns
call(t) ==
    /\ op[t].kind = "call"
    /\ \/ /\ pc[t] = "entry"
          /\ WriteLock(t)
          /\ UNCHANGED <<store, lastError, op, handler, ret, torn, notes, scheduler, engine>>
       \/ /\ pc[t] = "engine"
          /\ LET status == IF op[t].phase # "requested" THEN op[t].status
                           ELSE UA_Server_call(nodes, op[t].methodId, op[t].objectId,
                                               op[t].inputSize)
             IN  /\ op[t].phase = "requested" => status # Good
                 /\ Return(t, Result(op[t], status, status = Good, op[t].produced),
                            AfterOther)
          /\ Unlock
          /\ UNCHANGED <<store, lastError, handler, torn, scheduler, engine>>

\* ServerMethod::methodCallback: the engine, inside UA_Server_call, hands the
\* request to the ServerMethod registered as the method node's context
methodCallback(t) ==
    /\ op[t].kind = "call"
    /\ pc[t] = "engine"
    /\ op[t].phase = "requested"
    /\ UA_Server_call(nodes, op[t].methodId, op[t].objectId, op[t].inputSize) = Good
    /\ LET methodContext == nodes[op[t].methodId].context
           s == serverMapAt(life.serverMap, "_server")
           \* ret is UA_STATUSCODE_GOOD when the handler is not called
           ret_ == [op EXCEPT ![t] = [op[t] EXCEPT !.phase = "skipped", !.status = Good]]
       IN  IF methodContext = NoContext
           THEN /\ op' = ret_
                /\ UNCHANGED <<handler, pc, life>>
           ELSE /\ methodContext = "method"
                /\ life' = [life EXCEPT !.serverMap = s.map]
                /\ IF s.server = NullServer
                   THEN /\ op' = ret_
                        /\ UNCHANGED <<handler, pc>>
                   ELSE /\ handler' = [handler EXCEPT ![t] =
                                [op[t] EXCEPT !.outputSize =
                                                  nodes[op[t].methodId].method.outputs]]
                        /\ op' = [op EXCEPT ![t] = NoOp]
                        /\ pc' = [pc EXCEPT ![t] = "handler"]
    /\ UNCHANGED <<store, mutex, lastError, ret, torn, notes, scheduler, namespaces>>

\* static Server* findServer(UA_Server* s) { return _serverMap[s]; }
findServer(t) ==
    /\ op[t].kind = "findServer"
    /\ pc[t] = "entry"
    /\ LET s == serverMapAt(life.serverMap, op[t].s)
       IN  /\ life' = [life EXCEPT !.serverMap = s.map]
           /\ Return(t, Result(op[t], lastError, s.server # NullServer, s.server),
                      notes)
    /\ UNCHANGED <<store, mutex, lastError, handler, torn, scheduler, namespaces>>

\* ServerMethod::callback, the handler body, sets some of the outputSize
\* elements of the output buffer the engine gave it and returns its status
\* to the engine
callback(t) ==
    /\ pc[t] = "handler"
    /\ \E status \in {Good, "TypeMismatch"},
          produced \in 0..handler[t].outputSize :
          op' = [op EXCEPT ![t] = [handler[t] EXCEPT !.phase = "returned",
                                                     !.status = status,
                                                     !.produced = produced]]
    /\ handler' = [handler EXCEPT ![t] = NoOp]
    /\ pc' = [pc EXCEPT ![t] = "engine"]
    /\ UNCHANGED <<store, mutex, lastError, ret, torn, notes, scheduler, engine>>

\* bool translateBrowsePathToNodeIds(path, result): the result of the engine
\* goes to the caller, true for a good status; _lastError is not set
translateBrowsePathToNodeIds(t) ==
    /\ op[t].kind = "translateBrowsePathToNodeIds"
    /\ \/ /\ pc[t] = "entry"
          /\ WriteLock(t)
          /\ UNCHANGED <<store, lastError, op, handler, ret, torn, notes, scheduler, engine>>
       \/ /\ pc[t] = "engine"
          /\ LET r == UA_Server_translateBrowsePathToNodeIds(
                          nodes, refs, op[t].origin, op[t].path)
             IN  Return(t, Result(op[t], r.statusCode, r.statusCode = Good, r.target),
                        AfterOther)
          /\ Unlock
          /\ UNCHANGED <<store, lastError, handler, torn, scheduler, engine>>

(***************************************************************************)
(* Requests of remote sessions.  The engine asks the access control of the *)
(* Server before it serves them; they do not pass through the methods of   *)
(* Server, so they take no WriteLock and leave _lastError alone.           *)
(***************************************************************************)
SessionKinds == {"Read", "AddNodes", "AddReferences", "DeleteNodes"}

\* the access control of Server, as long as no subclass overrides it
allowAddNode == TRUE
allowAddReference == TRUE
allowDeleteNode == FALSE
allowDeleteReference == TRUE
getUserRightsMask == {}
getUserAccessLevel == {}

\* the Read service: the Value of a variable is read with the READ bit of the
\* node's access level, masked with the access level of the session's user
Service_Read(t) ==
    /\ op[t].kind = "Read"
    /\ pc[t] = "entry"
    /\ LET r == UA_Server_read(nodes, op[t].nodeId, op[t].attr)
           denied == /\ r.status = Good
                     /\ op[t].attr = "Value"
                     /\ "READ" \notin
                            (nodes[op[t].nodeId].accessLevel \cap getUserAccessLevel)
       IN  Return(t, Result(op[t], IF denied THEN "AccessDenied" ELSE r.status,
                            r.status = Good /\ ~denied,
                            IF denied THEN NullVariant ELSE r.value),
                  AfterOther)
    /\ UNCHANGED <<store, mutex, lastError, handler, torn, scheduler, engine>>

\* the AddNodes service
Service_AddNodes(t) ==
    /\ op[t].kind = "AddNodes"
    /\ pc[t] = "entry"
    /\ LET r == IF allowAddNode
                THEN UA_Server_addNode(nodes, refs, nextAuto, op[t].requestedId,
                                       op[t].parentId, op[t].refType,
                                       NewNode("Object", op[t].browseName, NullVariant,
                                               {}, NoContext, NoOp))
                ELSE [status |-> "AccessDenied", nodes |-> nodes, refs |-> refs,
                      nextAuto |-> nextAuto, newId |-> NodeIdNull]
       IN  /\ nodes' = r.nodes
           /\ refs' = r.refs
           /\ nextAuto' = r.nextAuto
           /\ Return(t, Result(op[t], r.status, r.status = Good, r.newId),
                      AfterAdd(op[t], r.newId, r.status))
    /\ UNCHANGED <<mutex, lastError, handler, torn, scheduler, engine>>

\* the AddReferences service
Service_AddReferences(t) ==
    /\ op[t].kind = "AddReferences"
    /\ pc[t] = "entry"
    /\ LET r == IF allowAddReference
                THEN UA_Server_addReference(nodes, refs, op[t].sourceId,
                                            op[t].refType, op[t].targetId)
                ELSE [status |-> "AccessDenied", refs |-> refs]
       IN  /\ refs' = r.refs
           /\ Return(t, Result(op[t], r.status, r.status = Good, NodeIdNull),
                      AfterOther)
    /\ UNCHANGED <<nodes, nextAuto, mutex, lastError, handler, torn, scheduler, engine>>

\* the DeleteNodes service
Service_DeleteNodes(t) ==
    /\ op[t].kind = "DeleteNodes"
    /\ pc[t] = "entry"
    /\ LET r == IF allowDeleteNode
                THEN UA_Server_deleteNode(nodes, refs, op[t].nodeId,
                                          op[t].deleteReferences)
                ELSE [status |-> "AccessDenied", nodes |-> nodes, refs |-> refs]
       IN  /\ nodes' = r.nodes
           /\ refs' = r.refs
           /\ Return(t, Result(op[t], r.status, r.status = Good, NodeIdNull),
                      AfterDelete(op[t].nodeId, op[t].deleteReferences, r.status))
    /\ UNCHANGED <<nextAuto, mutex, lastError, handler, torn, scheduler, engine>>

(***************************************************************************)
(* Repeated callbacks.  The host (initialise, or the code between two      *)
(* iterations of the loop) and the body of a callback call the methods of  *)
(* SeverRepeatedCallback; the event loop runs one body at a time.          *)
(***************************************************************************)
storeSide == <<nodes, refs, nextAuto, mutex, lastError, pc, op, handler, ret,
               torn, notes, life, namespaces>>

Running(c) == c.id # 0

\* the host can call every live callback, a body only the callback it is
\* given as its argument
Callable(o) ==
    /\ loop.running
    /\ repeated[o].life = "alive"
    /\ loop.body \in {NoCallback, o}

\* a start() that registers a timer whether or not the callback is Running
startAgain(o) ==
    /\ Callable(o)
    /\ loop.next < MaxTimers
    /\ loop' = registerTimer(loop, repeated[o].interval, o)
    /\ repeated' = [repeated EXCEPT ![o] =
                       [@ EXCEPT !.id = loop.next + 1, !.last = "start",
                                 !.was = Running(repeated[o]),
                                 !.starts = IF @ < 2 THEN @ + 1 ELSE @,
                                 !.first = IF repeated[o].starts = 0
                                           THEN loop.next + 1 ELSE @]]
    /\ UNCHANGED <<callbacks, storeSide>>

\* SeverRepeatedCallback::start: registers the callback with the event loop
\* at its interval and keeps the handle in _id; nothing if it is Running
start(o) ==
    /\ Callable(o)
    /\ IF Running(repeated[o])
       THEN /\ loop' = loop
            /\ repeated' = [repeated EXCEPT ![o] =
                               [@ EXCEPT !.last = "start", !.was = TRUE,
                                         !.starts = IF @ < 2 THEN @ + 1 ELSE @]]
       ELSE /\ loop.next < MaxTimers
            /\ loop' = registerTimer(loop, repeated[o].interval, o)
            /\ repeated' = [repeated EXCEPT ![o] =
                               [@ EXCEPT !.id = loop.next + 1, !.last = "start",
                                         !.was = FALSE, !.starts = 1,
                                         !.first = loop.next + 1]]
    /\ UNCHANGED <<callbacks, storeSide>>

\* a changeInterval that takes the timer away and does not register it again
changeIntervalStops(o, ms) ==
    /\ Callable(o)
    /\ loop' = cancelTimer(loop, repeated[o].id)
    /\ repeated' = [repeated EXCEPT ![o] =
                       [@ EXCEPT !.id = 0, !.interval = ms,
                                 !.last = "changeInterval",
                                 !.was = Running(repeated[o]),
                                 !.starts = 0, !.first = 0]]
    /\ UNCHANGED <<callbacks, storeSide>>

\* SeverRepeatedCallback::changeInterval: the timer of a Running callback gets
\* the new interval in one step of the engine; a callback that is not Running
\* stays so
changeInterval(o, ms) ==
    /\ Callable(o)
    /\ loop' = IF Running(repeated[o]) THEN changeTimer(loop, repeated[o].id, ms)
               ELSE loop
    /\ repeated' = [repeated EXCEPT ![o] =
                       [@ EXCEPT !.interval = ms, !.last = "changeInterval",
                                 !.was = Running(repeated[o])]]
    /\ UNCHANGED <<callbacks, storeSide>>

\* a stop() that forgets the handle and leaves the timer with the engine
stopKeepsTimer(o) ==
    /\ Callable(o)
    /\ loop' = loop
    /\ repeated' = [repeated EXCEPT ![o] =
                       [@ EXCEPT !.id = 0, !.last = "stop",
                                 !.was = Running(repeated[o]),
                                 !.starts = 0, !.first = 0]]
    /\ UNCHANGED <<callbacks, storeSide>>

\* SeverRepeatedCallback::stop: takes the timer from the event loop and
\* clears _id
stop(o) ==
    /\ Callable(o)
    /\ loop' = cancelTimer(loop, repeated[o].id)
    /\ repeated' = [repeated EXCEPT ![o] =
                       [@ EXCEPT !.id = 0, !.last = "stop",
                                 !.was = Running(repeated[o]),
                                 !.starts = 0, !.first = 0]]
    /\ UNCHANGED <<callbacks, storeSide>>

\* SeverRepeatedCallback::callbackFunction: the event loop fires a timer and
\* hands its data, the callback, to callback(), which runs the body
callbackFunction(o) ==
    /\ loop.running
    /\ loop.body = NoCallback
    /\ TimersOf(loop, o) # {}
    /\ loop' = [loop EXCEPT !.body = o]
    /\ UNCHANGED <<callbacks, repeated, storeSide>>

\* the body (_func) returns to the event loop
funcReturns ==
    /\ loop.body # NoCallback
    /\ loop' = [loop EXCEPT !.body = NoCallback]
    /\ UNCHANGED <<callbacks, repeated, storeSide>>

\* S is the pair of the callback objects and the loop.
\* ~SeverRepeatedCallback: the timer of the callback leaves the event loop
Destroyed(S, o) ==
    [rep |-> [S.rep EXCEPT ![o] = [@ EXCEPT !.life = "destroyed", !.id = 0,
                                            !.last = "destroyed",
                                            !.starts = 0, !.first = 0]],
     loop |-> cancelTimer(S.loop, S.rep[o].id)]

\* a SeverRepeatedCallbackRef lets go of its object: the last owner destroys it
Released(S, o) ==
    IF o = NoCallback \/ S.rep[o].copies > 0 THEN S ELSE Destroyed(S, o)

RECURSIVE ReleasedAll(_, _)
ReleasedAll(S, held) ==
    IF held = {} THEN S
    ELSE LET o == CHOOSE x \in held : TRUE
         IN  ReleasedAll(Released(S, o), held \ {o})

\* Server::addRepeatedCallback: a new callback goes under the name; the
\* reference that was there is overwritten and lets go of its object
addRepeatedCallback(id, interval) ==
    /\ loop.running
    /\ loop.body = NoCallback
    /\ \E p \in CallbackIds :
          /\ repeated[p].life = "none"
          /\ \A q \in CallbackIds : repeated[q].life = "none" => p <= q
          /\ LET made == [repeated EXCEPT ![p] =
                             [SeverRepeatedCallback(interval) EXCEPT !.held = TRUE]]
                 S == Released([rep |-> made, loop |-> loop], callbacks[id])
             IN  /\ callbacks' = [callbacks EXCEPT ![id] = p]
                 /\ repeated' = S.rep
                 /\ loop' = S.loop
    /\ UNCHANGED storeSide

\* Server::removeRepeatedCallback: _callbacks.erase(id)
removeRepeatedCallback(id) ==
    /\ loop.running
    /\ loop.body = NoCallback
    /\ LET S == Released([rep |-> repeated, loop |-> loop], callbacks[id])
       IN  /\ callbacks' = [callbacks EXCEPT ![id] = NoCallback]
           /\ repeated' = S.rep
           /\ loop' = S.loop
    /\ UNCHANGED storeSide

\* Server::repeatedCallback returns the reference held under the name, and
\* the caller keeps a copy of it
repeatedCallback(id) ==
    /\ loop.running
    /\ loop.body = NoCallback
    /\ callbacks[id] # NoCallback
    /\ repeated[callbacks[id]].copies = 0
    /\ repeated' = [repeated EXCEPT ![callbacks[id]].copies = 1]
    /\ UNCHANGED <<callbacks, loop, storeSide>>

\* the caller's copy of a reference goes out of scope
resetRef(o) ==
    /\ loop.running
    /\ loop.body = NoCallback
    /\ repeated[o].copies = 1
    /\ LET dropped == [rep |-> [repeated EXCEPT ![o].copies = 0], loop |-> loop]
           S == IF \E n \in CallbackNames : callbacks[n] = o THEN dropped
                ELSE Released(dropped, o)
       IN  /\ repeated' = S.rep
           /\ loop' = S.loop
    /\ UNCHANGED <<callbacks, storeSide>>

\* Server::terminate: the registry lets go of its callbacks and the event
\* loop ends
terminate ==
    /\ life.at \in {"terminate", "destructor"}
    /\ loop.body = NoCallback
    /\ LET S == ReleasedAll([rep |-> repeated, loop |-> loop],
                            {callbacks[n] : n \in CallbackNames})
       IN  /\ callbacks' = [n \in CallbackNames |-> NoCallback]
           /\ repeated' = S.rep
           /\ loop' = [S.loop EXCEPT !.running = FALSE]
    /\ life' = [life EXCEPT !.server = FALSE, !.config = FALSE,
                            !.terminated = @ + 1,
                            !.at = IF @ = "terminate" THEN "shutdown" ELSE "destroyed"]
    /\ UNCHANGED <<nodes, refs, nextAuto, mutex, lastError, pc, op, handler, ret,
                   torn, notes, namespaces>>

(***************************************************************************)
(* The life of a Server.  start() runs on the host's main thread: it calls *)
(* initialise(), then alternates an iteration of the engine's loop with    *)
(* process() while _running holds, then calls terminate().  stop() may     *)
(* come from any thread or from a hook.  The loop is cut off after         *)
(* MaxIterations iterations, after which only stop() lets start() go on.   *)
(***************************************************************************)
schedulerSide == <<nodes, refs, nextAuto, mutex, lastError, pc, op, handler, ret,
                   torn, notes, callbacks, repeated, loop, namespaces>>

\* Server::start without the test of the engine handles
ServerStartUnchecked ==
    /\ life.at \in {"constructed", "shutdown"}
    /\ life' = [life EXCEPT !.running = TRUE, !.at = "initialise"]
    /\ UNCHANGED schedulerSide

\* Server::start, up to its call of initialise(): a Server without an
\* engine or without a configuration refuses and returns at once
ServerStart ==
    /\ life.at \in {"constructed", "shutdown"}
    /\ life' = IF life.server /\ life.config
               THEN [life EXCEPT !.running = TRUE, !.at = "initialise"]
               ELSE [life EXCEPT !.at = IF @ = "constructed" THEN "refused" ELSE @]
    /\ UNCHANGED schedulerSide

\* Server::initialise, called by start() before the loop
initialise ==
    /\ life.at = "initialise"
    /\ life' = [life EXCEPT !.initialised = @ + 1, !.at = "loop"]
    /\ UNCHANGED schedulerSide

\* a loop that goes on whatever _running says
iterateUnconditional ==
    /\ life.at = "loop"
    /\ life.iterations < MaxIterations
    /\ life' = [life EXCEPT !.iterations = @ + 1, !.at = "process"]
    /\ UNCHANGED schedulerSide

\* one iteration of the engine's loop inside start()
iterate ==
    /\ life.at = "loop"
    /\ life.running
    /\ life.iterations < MaxIterations
    /\ life' = [life EXCEPT !.iterations = @ + 1, !.at = "process"]
    /\ UNCHANGED schedulerSide

\* Server::process, called by start() after each iteration
process ==
    /\ life.at = "process"
    /\ life' = [life EXCEPT !.processed = @ + 1, !.at = "loop"]
    /\ UNCHANGED schedulerSide

\* start() finds _running false and leaves the loop for terminate()
leaveLoop ==
    /\ life.at = "loop"
    /\ ~life.running
    /\ life' = [life EXCEPT !.at = "terminate"]
    /\ UNCHANGED schedulerSide

\* Server::stop
ServerStop ==
    /\ life.running
    /\ life' = [life EXCEPT !.running = FALSE, !.stopped = TRUE,
                            !.atStop = life.iterations]
    /\ UNCHANGED schedulerSide

\* Server::~Server with the call of terminate() made in every case
ServerDestructorAlways ==
    /\ life.at \in {"constructed", "refused", "shutdown"}
    /\ mutex = Free
    /\ life' = [life EXCEPT !.at = "destructor"]
    /\ UNCHANGED schedulerSide

\* Server::~Server: terminate() is called, under the WriteLock, only when
\* the engine handle is set; the call itself is the action terminate
ServerDestructor ==
    /\ life.at \in {"constructed", "refused", "shutdown"}
    /\ mutex = Free
    /\ life' = [life EXCEPT !.at = IF life.server THEN "destructor" ELSE "destroyed"]
    /\ UNCHANGED schedulerSide

(***************************************************************************)
(* Methods called on a Server in any state, a Server without an engine     *)
(* included.                                                               *)
(***************************************************************************)
\* the methods of which the model follows the test  if (!server()) return false;
CheckedKinds == {"readAttribute", "writeAttribute", "writeValue", "deleteNode",
                 "addVariableNode"}

\* if (!server()) return false;  _lastError keeps its value
returnsWithoutServer(t) ==
    /\ op[t].kind \in CheckedKinds
    /\ pc[t] = "entry"
    /\ ~life.server
    /\ Return(t, Result(op[t], lastError, FALSE, NullVariant), notes)
    /\ UNCHANGED <<store, mutex, lastError, handler, torn, scheduler, engine>>

\* UA_UInt16 addNamespace(s): 0 without an engine, else the index the engine
\* gives, under the WriteLock
addNamespace(t) ==
    /\ op[t].kind = "addNamespace"
    /\ \/ /\ pc[t] = "entry"
          /\ ~life.server
          /\ Return(t, Result(op[t], lastError, FALSE, 0), notes)
          /\ UNCHANGED <<store, mutex, lastError, handler, torn, scheduler, engine>>
       \/ /\ pc[t] = "entry"
          /\ WriteLock(t)
          /\ UNCHANGED <<store, lastError, op, handler, ret, torn, notes, scheduler, engine>>
       \/ /\ pc[t] = "engine"
          /\ LET r == UA_Server_addNamespace(namespaces, op[t].name)
             IN  /\ namespaces' = r.array
                 /\ Return(t, Result(op[t], lastError, r.index # 0, r.index),
                           [notes EXCEPT !.assigned =
                               Append(@, [name |-> op[t].name, index |-> r.index])])
          /\ Unlock
          /\ UNCHANGED <<store, lastError, handler, torn, scheduler, life>>

\* bool browseName(nodeId, s, ns): throws std::runtime_error without an
\* engine; else reads the browse name with no lock, leaves _lastError alone
\* and returns lastOK()
browseName(t) ==
    /\ op[t].kind = "browseName"
    /\ \/ /\ pc[t] = "entry"
          /\ ~life.server
          /\ pc' = [pc EXCEPT ![t] = "thrown"]
          /\ UNCHANGED <<store, mutex, lastError, op, handler, ret, torn, notes,
                         scheduler, engine>>
       \/ /\ pc[t] = "entry"
          /\ NoLock(t)
          /\ UNCHANGED <<store, lastError, op, handler, ret, torn, notes, scheduler, engine>>
       \/ /\ pc[t] = "engine"
          /\ LET r == UA_Server_read(nodes, op[t].nodeId, "BrowseName")
             IN  Return(t, Result(op[t], r.status, lastOK(lastError), r.value), notes)
          /\ UNCHANGED <<store, mutex, lastError, handler, torn, scheduler, engine>>

\* bool getNodeContext(n, c): void* p = (void*)(c); the engine writes the
\* context into p, a local of the method, and c keeps the value the caller
\* passed; no lock is taken
getNodeContext(t) ==
    /\ op[t].kind = "getNodeContext"
    /\ \/ /\ pc[t] = "entry"
          /\ NoLock(t)
          /\ UNCHANGED <<store, lastError, op, handler, ret, torn, notes, scheduler, engine>>
       \/ /\ pc[t] = "engine"
          /\ LET r == UA_Server_getNodeContext(nodes, op[t].nodeId)
                 p == r.nodeContext
             IN  /\ lastError' = r.status
                 /\ Return(t, Result(op[t], r.status, lastOK(r.status), op[t].c), notes)
          /\ UNCHANGED <<store, mutex, handler, torn, scheduler, engine>>

\* bool setNodeContext(n, c): no lock is taken
setNodeContext(t) ==
    /\ op[t].kind = "setNodeContext"
    /\ \/ /\ pc[t] = "entry"
          /\ NoLock(t)
          /\ UNCHANGED <<store, lastError, op, handler, ret, torn, notes, scheduler, engine>>
       \/ /\ pc[t] = "engine"
          /\ LET r == UA_Server_setNodeContext(nodes, op[t].nodeId, op[t].c)
             IN  /\ nodes' = r.nodes
                 /\ lastError' = r.status
                 /\ Return(t, Result(op[t], r.status, lastOK(r.status), op[t].c), notes)
          /\ UNCHANGED <<refs, nextAuto, mutex, handler, torn, scheduler, engine>>

\* bool variable(nodeId, value): reads the value under the WriteLock, leaves
\* _lastError alone and returns lastOK()
variable(t) ==
    /\ op[t].kind = "variable"
    /\ \/ /\ pc[t] = "entry"
          /\ WriteLock(t)
          /\ UNCHANGED <<store, lastError, op, handler, ret, torn, notes, scheduler, engine>>
       \/ /\ pc[t] = "engine"
          /\ LET r == UA_Server_read(nodes, op[t].nodeId, "Value")
             IN  Return(t, Result(op[t], r.status, lastOK(lastError), r.value), notes)
          /\ Unlock
          /\ UNCHANGED <<store, lastError, handler, torn, scheduler, engine>>

\* a method that writes through _config without a test of the pointer: with
\* a null _config the behaviour is undefined, the write faults and ends the
\* process or the method returns as if nothing had happened
WritesConfig(t) ==
    /\ pc[t] = "entry"
    /\ \/ /\ Return(t, Result(op[t], lastError, TRUE, NullVariant), notes)
       \/ /\ ~life.config
          /\ pc' = [x \in Threads |-> "aborted"]
          /\ UNCHANGED <<op, ret, notes>>
    /\ UNCHANGED <<store, mutex, lastError, handler, torn, scheduler, engine>>

\* void applyEndpoints(endpoints): _config->endpoints = endpoints.data()
applyEndpoints(t) ==
    /\ op[t].kind = "applyEndpoints"
    /\ WritesConfig(t)

\* void setServerUri(s): _config->applicationDescription.applicationUri = s
setServerUri(t) ==
    /\ op[t].kind = "setServerUri"
    /\ WritesConfig(t)

(***************************************************************************)
(* NodeId objects.  A constructor takes the namespace index as an unsigned *)
(* and stores it as a UA_UInt16.  An identifier is a kind with a value; a  *)
(* string identifier is numbered by its value.                             *)
(***************************************************************************)
\* NodeId(unsigned index, unsigned id), NodeId(unsigned index, const
\* std::string& id): UA_NODEID_NUMERIC(UA_UInt16(index), id) and
\* UA_NODEID_STRING_ALLOC(UA_UInt16(index), id.c_str())
NodeId(index, id) ==
    [namespaceIndex |-> index % 65536, identifierType |-> id.type,
     identifier |-> id.value]

\* UA_NodeId_equal
UA_NodeId_equal(a, b) ==
    /\ a.namespaceIndex = b.namespaceIndex
    /\ a.identifierType = b.identifierType
    /\ a.identifier = b.identifier

\* bool NodeId::operator==(const NodeId& node), applied by a caller to two
\* NodeIds it has constructed
operatorEquals(t) ==
    /\ op[t].kind = "operator=="
    /\ pc[t] = "entry"
    /\ Return(t, Result(op[t], lastError,
                        UA_NodeId_equal(NodeId(op[t].index, op[t].id),
                                        NodeId(op[t].otherIndex, op[t].otherId)),
                        NullVariant), notes)
    /\ UNCHANGED <<store, mutex, lastError, handler, torn, scheduler, engine>>

(***************************************************************************)
(* The requests of the callers.  The example server (TestServer) creates   *)
(* the variable Number_Value and the method TestMethod under Objects; its  *)
(* repeated callback writes Number_Value while clients read and call.      *)
(***************************************************************************)
NumberValue == <<1, 1>>
TestMethod == <<1, 2>>
AutoRequest == <<TestNs, 0>>
ReadWrite == {"READ", "WRITE"}
IntVariants == {v \in Variants : v.type = "Int32"}

ReadRequests(ids, attrs) ==
    {[kind |-> "readAttribute", nodeId |-> n, attr |-> a] : n \in ids, a \in attrs}
WriteValueRequests(ids, values) ==
    {[kind |-> "writeValue", nodeId |-> n, value |-> v] : n \in ids, v \in values}
WriteAttributeRequests(ids, attr, values) ==
    {[kind |-> "writeAttribute", nodeId |-> n, attr |-> attr, value |-> v] :
        n \in ids, v \in values}
AddVariableRequests(ids, parents, values, levels) ==
    {[kind |-> "addVariableNode", requestedId |-> n, parentId |-> p,
      refType |-> "Organizes", browseName |-> <<TestNs, "A">>, value |-> v,
      accessLevel |-> l, receiver |-> FALSE, context |-> NoContext] :
        n \in ids, p \in parents, v \in values, l \in levels}
AddObjectRequests(kind, ids, parents, refType, names) ==
    {[kind |-> kind, requestedId |-> n, parentId |-> p, refType |-> refType,
      browseName |-> <<TestNs, b>>, receiver |-> TRUE, context |-> NoContext] :
        n \in ids, p \in parents, b \in names}
DeleteRequests(ids, flags) ==
    {[kind |-> "deleteNode", nodeId |-> n, deleteReferences |-> d] :
        n \in ids, d \in flags}
ReferenceRequests(kind, sources, targets) ==
    {[kind |-> kind, sourceId |-> a, refType |-> "HasComponent", targetId |-> b] :
        a \in sources, b \in targets}
MethodRequests(ids, parents, arities) ==
    {[kind |-> "addServerMethod", requestedId |-> n, parentId |-> p,
      browseName |-> "B", nameSpaceIndex |-> TestNs, receiver |-> FALSE,
      nInputs |-> a, nOutputs |-> 1,
      method |-> ServerMethod(a, 1)] : n \in ids, p \in parents, a \in arities}
\* ServerMethod m(name, nInputs, nOutputs); m.addServerMethod(server, ...)
ServerMethodRequests(ids, parents, ins, outs) ==
    {[kind |-> "addServerMethod", requestedId |-> n, parentId |-> p,
      browseName |-> "B", nameSpaceIndex |-> TestNs, receiver |-> FALSE,
      nInputs |-> a, nOutputs |-> b,
      method |-> ServerMethod(a, b)] : n \in ids, p \in parents, a \in ins, b \in outs}
CallRequests(ids, objects, sizes) ==
    {[kind |-> "call", methodId |-> m, objectId |-> o, inputSize |-> k,
      phase |-> "requested", status |-> Good, outputSize |-> 0,
      produced |-> 0] :
        m \in ids, o \in objects, k \in sizes}

\* ServerNodeTree::addFolderNode(parent, s, no): the identifier is assigned
\* by the engine in the tree's namespace
addFolderNode(nameSpace, parents, names) ==
    {[kind |-> "addFolder", requestedId |-> <<nameSpace, 0>>, parentId |-> p,
      browseName |-> b, nameSpaceIndex |-> nameSpace, receiver |-> TRUE] :
        p \in parents, b \in names}
\* the paths of at most n browse names
Paths(n) == UNION {[1..k -> Names] : k \in 1..n}
\* addVariable(parent, name, value, nodeId, newNode, &_context)
ContextVariableRequests(ids, parents, contexts) ==
    {[kind |-> "addVariableNode", requestedId |-> n, parentId |-> p,
      refType |-> "Organizes", browseName |-> <<TestNs, "A">>,
      value |-> [type |-> "String", data |-> 1], accessLevel |-> ReadWrite,
      receiver |-> FALSE, context |-> c] : n \in ids, p \in parents, c \in contexts}
\* addNamespace with the names that are not yet in the namespace array, as
\* long as the array has room
NamespaceRequests ==
    {[kind |-> "addNamespace", name |-> n] :
        n \in {x \in NamespaceNames :
                  /\ Len(namespaces) < Len(BuiltInNamespaces) + MaxNamespaces
                  /\ \A i \in DOMAIN namespaces : namespaces[i] # x}}
BrowseNameRequests(ids) == {[kind |-> "browseName", nodeId |-> n] : n \in ids}
\* the caller of getNodeContext passes a pointer that is null
NodeContextRequests(kind, ids, contexts) ==
    {[kind |-> kind, nodeId |-> n, c |-> x] : n \in ids, x \in contexts}
VariableRequests(ids) == {[kind |-> "variable", nodeId |-> n] : n \in ids}
ConfigRequests == {[kind |-> k] : k \in {"applyEndpoints", "setServerUri"}}
\* namespace indices as the unsigned arguments of the constructors, the last
\* one beyond the range of a UA_UInt16, and identifiers of two kinds
UnsignedIndices == {0, 1, 2, 65537}
Identifiers == {[type |-> "NUMERIC", value |-> 1], [type |-> "NUMERIC", value |-> 2],
                [type |-> "STRING", value |-> 1]}
EqualRequests ==
    {[kind |-> "operator==", index |-> i, id |-> a, otherIndex |-> j, otherId |-> b] :
        i \in UnsignedIndices, j \in UnsignedIndices, a \in Identifiers, b \in Identifiers}
BrowseTreeRequests(ids) ==
    {[kind |-> "browseTree", nodeId |-> n, pending |-> <<n>>, visited |-> {},
      expanded |-> <<>>] : n \in ids}
SetReadOnlyRequests(ids, flags) ==
    {[kind |-> "setReadOnly", nodeId |-> n, historyEnable |-> h,
      step |-> "readAccessLevel", accessLevel |-> {}] : n \in ids, h \in flags}
BrowsePathRequests(origins, paths) ==
    {[kind |-> "translateBrowsePathToNodeIds", origin |-> o, path |-> p] :
        o \in origins, p \in paths}
PathRequests(starts, paths) ==
    {[kind |-> "createFolderPath", start |-> s, path |-> p, ns |-> TestNs,
      level |-> 0, cur |-> s, step |-> "getChild"] : s \in starts, p \in paths}

\* the worker threads of a host that serves clients on several threads
Requests ==
    ReadRequests({NumberValue}, {"Value"})
    \cup WriteValueRequests({NumberValue}, IntVariants)
    \cup WriteAttributeRequests({NumberValue}, "Value", {[type |-> "Int32", data |-> 1]})
    \cup AddVariableRequests({NumberValue}, {NodeIdObjects},
                             {[type |-> "Int32", data |-> 1]}, {ReadWrite})
    \cup AddObjectRequests("addObjectTypeNode", {AutoRequest}, {NodeIdObjects},
                           "HasSubType", {"A"})
    \cup AddObjectRequests("addObjectNode", {AutoRequest}, {NodeIdObjects},
                           "Organizes", {"A"})
    \cup DeleteRequests({NumberValue}, {TRUE})
    \cup ReferenceRequests("addReference", {NodeIdObjects}, {NumberValue})
    \cup ReferenceRequests("deleteReference", {NodeIdObjects}, {NumberValue})
    \cup MethodRequests({TestMethod}, {NodeIdObjects}, {1})
    \cup CallRequests({TestMethod}, {NodeIdObjects}, {1})

Next ==
    \E t \in Threads :
        \/ Invoke(t, Requests)
        \/ readAttribute(t)
        \/ writeAttribute(t)
        \/ writeValue(t)
        \/ addVariableNode(t)
        \/ addObjectNode(t)
        \/ addObjectTypeNode(t)
        \/ deleteNode(t)
        \/ addReference(t)
        \/ deleteReference(t)
        \/ addServerMethod(t)
        \/ call(t)
        \/ methodCallback(t)
        \/ callback(t)

Spec == Init /\ [][Next]_vars

\* two callers that build the same folder paths under Objects
RaceRequests == PathRequests({NodeIdObjects}, Paths(MaxPath))
RaceNext ==
    \E t \in Threads :
        \/ Invoke(t, RaceRequests)
        \/ createFolderPath(t)
RaceSpec == InitObserved /\ [][RaceNext]_vars

\* one caller (initialise, or the one thread of a host that serves its
\* clients on a single thread) whose calls follow one another: it builds and
\* removes folders
FirstFolder == AutoId(TestNs, 0)
FolderRequests ==
    PathRequests({NodeIdObjects}, Paths(MaxPath))
    \cup addFolderNode(TestNs, {NodeIdObjects}, {"A"})
    \cup DeleteRequests({FirstFolder}, {TRUE})
FolderNext ==
    \E t \in {"t1"} :
        \/ Invoke(t, FolderRequests)
        \/ createFolderPath(t)
        \/ addFolder(t)
        \/ deleteNode(t)
FolderSpec == InitObserved /\ [][FolderNext]_vars

\* one caller that adds, reads, writes and deletes the variable Number_Value
ValueRequests ==
    addFolderNode(TestNs, {NodeIdObjects}, {"A"})
    \cup AddVariableRequests({NumberValue}, {NodeIdObjects, FirstFolder},
                             {[type |-> "Int32", data |-> 1]}, {ReadWrite, {"READ"}})
    \cup DeleteRequests({NumberValue, FirstFolder}, {TRUE, FALSE})
    \cup ReadRequests({NumberValue}, {"Value"})
    \cup WriteValueRequests({NumberValue}, Variants)
    \cup WriteAttributeRequests({NumberValue}, "Value", Variants)
ValueNext ==
    \E t \in {"t1"} :
        \/ Invoke(t, ValueRequests)
        \/ addFolder(t)
        \/ addVariableNode(t)
        \/ deleteNode(t)
        \/ readAttribute(t)
        \/ writeValue(t)
        \/ writeAttribute(t)
ValueSpec == InitObserved /\ [][ValueNext]_vars

\* one caller that adds nodes with identifiers of its own choice and with
\* identifiers it leaves to the engine, under parents that exist or not
AddRequests ==
    addFolderNode(TestNs, {NodeIdObjects}, {"A"})
    \cup AddVariableRequests({NumberValue, AutoRequest}, {NodeIdObjects, FirstFolder},
                             {[type |-> "Int32", data |-> 1]}, {ReadWrite})
    \cup AddObjectRequests("addObjectNode", {TestMethod, AutoRequest, NodeIdNull},
                           {NodeIdObjects, FirstFolder}, "Organizes", {"A"})
    \cup DeleteRequests({NumberValue, FirstFolder}, {TRUE})
AddNext ==
    \E t \in {"t1"} :
        \/ Invoke(t, AddRequests)
        \/ addFolder(t)
        \/ addVariableNode(t)
        \/ addObjectNode(t)
        \/ deleteNode(t)
AddSpec == InitObserved /\ [][AddNext]_vars

\* one caller that registers ServerMethods of every number of arguments and
\* calls them with every number of inputs
ArityRequests ==
    ServerMethodRequests({TestMethod}, {NodeIdObjects}, 0..MaxArgs, 0..MaxArgs)
    \cup CallRequests({TestMethod}, {NodeIdObjects}, 0..(MaxArgs + 1))
    \cup DeleteRequests({TestMethod}, {TRUE})
ArityNext ==
    \E t \in {"t1"} :
        \/ Invoke(t, ArityRequests)
        \/ addServerMethod(t)
        \/ call(t)
        \/ methodCallback(t)
        \/ callback(t)
        \/ deleteNode(t)
AritySpec == InitObserved /\ [][ArityNext]_vars

\* Repeated callbacks: the calls that the host and the bodies make on the
\* callbacks they hold, the example server's _repeatedEvent among them, and the
\* event loop that fires the timers
TimerNext ==
    \E o \in CallbackIds, ms \in Intervals :
        \/ start(o)
        \/ changeInterval(o, ms)
        \/ stop(o)
        \/ callbackFunction(o)
        \/ funcReturns
TimerSpec == InitObserved /\ [][TimerNext]_vars

\* The registry of the Server: callbacks are put under names, looked up,
\* removed and started, and the server is torn down
RegistryNext ==
    \E o \in CallbackIds, id \in CallbackNames, ms \in {2000} :
        \/ addRepeatedCallback(id, ms)
        \/ removeRepeatedCallback(id)
        \/ repeatedCallback(id)
        \/ resetRef(o)
        \/ ServerDestructor
        \/ terminate
        \/ start(o)
        \/ callbackFunction(o)
        \/ funcReturns
RegistrySpec == InitObserved /\ [][RegistryNext]_vars

\* The life of a Server from its construction, with or without an engine,
\* to its destruction, while callbacks are put into its registry and removed
InitLife ==
    /\ \E server \in BOOLEAN, config \in BOOLEAN :
          /\ config => server
          /\ ConstructedWith(server, config)
    /\ ret = [t \in Threads |-> NoOp]
LifeNext ==
    \E id \in CallbackNames, ms \in {2000} :
        \/ ServerStart
        \/ initialise
        \/ iterate
        \/ process
        \/ leaveLoop
        \/ ServerStop
        \/ terminate
        \/ ServerDestructor
        \/ addRepeatedCallback(id, ms)
        \/ removeRepeatedCallback(id)
LifeSpec == InitLife /\ [][LifeNext]_vars

\* the same, with a main thread that keeps running: main() calls start() and
\* nothing holds the thread back inside it
LifeLiveSpec ==
    /\ LifeSpec
    /\ WF_vars(initialise)
    /\ WF_vars(iterate)
    /\ WF_vars(process)
    /\ WF_vars(leaveLoop)
    /\ WF_vars(terminate)

\* one caller of a Server that was constructed with or without an engine
AnyStateRequests ==
    ReadRequests({NodeIdObjects, NumberValue}, {"Value", "BrowseName"})
    \cup WriteValueRequests({NumberValue}, IntVariants)
    \cup DeleteRequests({NumberValue}, {TRUE})
    \cup AddVariableRequests({NumberValue}, {NodeIdObjects},
                             {[type |-> "Int32", data |-> 1]}, {ReadWrite})
    \cup BrowseNameRequests({NodeIdObjects, NumberValue})
    \cup NamespaceRequests
    \cup ConfigRequests
AnyStateNext ==
    \E t \in {"t1"} :
        \/ Invoke(t, AnyStateRequests)
        \/ returnsWithoutServer(t)
        \/ readAttribute(t)
        \/ writeValue(t)
        \/ deleteNode(t)
        \/ addVariableNode(t)
        \/ addNamespace(t)
        \/ browseName(t)
        \/ applyEndpoints(t)
        \/ setServerUri(t)
AnyStateSpec == InitLife /\ [][AnyStateNext]_vars

\* one caller that registers namespaces with a running engine and adds
\* variables in them
NamespaceNext ==
    \E t \in {"t1"} :
        \/ Invoke(t, NamespaceRequests
                        \cup AddVariableRequests({NumberValue}, {NodeIdObjects},
                                                 IntVariants, {ReadWrite})
                        \cup ReadRequests({NumberValue}, {"Value"}))
        \/ addNamespace(t)
        \/ addVariableNode(t)
        \/ readAttribute(t)
NamespaceSpec == InitObserved /\ [][NamespaceNext]_vars

\* one caller that reads and writes attributes of the Objects folder and of
\* Number_Value, before the variable is added, while it exists and after it
\* is deleted
AttributeRequests ==
    AddVariableRequests({NumberValue}, {NodeIdObjects},
                        {[type |-> "Int32", data |-> 1]}, {ReadWrite})
    \cup DeleteRequests({NumberValue}, {TRUE})
    \cup ReadRequests({NodeIdObjects, NumberValue}, {"Value", "Executable", "BrowseName"})
    \cup WriteAttributeRequests({NodeIdObjects, NumberValue}, "Value", IntVariants)
    \cup WriteAttributeRequests({NodeIdObjects, NumberValue}, "Executable", BOOLEAN)
AttributeNext ==
    \E t \in {"t1"} :
        \/ Invoke(t, AttributeRequests)
        \/ addVariableNode(t)
        \/ deleteNode(t)
        \/ readAttribute(t)
        \/ writeAttribute(t)
AttributeSpec == InitObserved /\ [][AttributeNext]_vars

\* one caller that constructs two NodeIds and compares them
NodeIdNext ==
    \E t \in {"t1"} :
        \/ Invoke(t, EqualRequests)
        \/ operatorEquals(t)
NodeIdSpec == InitObserved /\ [][NodeIdNext]_vars

\* one caller that adds and deletes Number_Value, reads its value, and asks
\* for its browse name and its value with browseName and variable
StatusNext ==
    \E t \in {"t1"} :
        \/ Invoke(t, AddVariableRequests({NumberValue}, {NodeIdObjects},
                                         {[type |-> "Int32", data |-> 1]}, {ReadWrite})
                      \cup DeleteRequests({NumberValue}, {TRUE})
                      \cup ReadRequests({NumberValue}, {"Value"})
                      \cup BrowseNameRequests({NodeIdObjects, NumberValue})
                      \cup VariableRequests({NumberValue}))
        \/ addVariableNode(t)
        \/ deleteNode(t)
        \/ readAttribute(t)
        \/ browseName(t)
        \/ variable(t)
StatusSpec == InitObserved /\ [][StatusNext]_vars

\* one caller that adds TestMethod, takes the context from the method node
\* or puts it back, calls the method, and looks up the engine of the Server
\* and another engine in the server map
CallbackRequests ==
    MethodRequests({TestMethod}, {NodeIdObjects}, {1})
    \cup NodeContextRequests("setNodeContext", {TestMethod}, {NoContext, "method"})
    \cup CallRequests({TestMethod}, {NodeIdObjects}, {1})
    \cup {[kind |-> "findServer", s |-> h] : h \in {"_server", "UA_Server_new"}}
CallbackNext ==
    \E t \in {"t1"} :
        \/ Invoke(t, CallbackRequests)
        \/ addServerMethod(t)
        \/ setNodeContext(t)
        \/ call(t)
        \/ methodCallback(t)
        \/ callback(t)
        \/ findServer(t)
CallbackSpec == InitObserved /\ [][CallbackNext]_vars

\* one caller that adds the folder, the variable and the method of the example
\* server, each with NodeId::Null or with a receiver as its newNode
NullRequests ==
    {[kind |-> "addFolder", requestedId |-> <<TestNs, 0>>, parentId |-> NodeIdObjects,
      browseName |-> "A", nameSpaceIndex |-> TestNs, receiver |-> r] : r \in BOOLEAN}
    \cup {[kind |-> "addVariable", requestedId |-> NumberValue, parentId |-> p,
           browseName |-> "A", value |-> [type |-> "Int32", data |-> 1],
           context |-> NoContext, nameSpaceIndex |-> TestNs, receiver |-> r] :
             p \in {NodeIdObjects, FirstFolder}, r \in BOOLEAN}
    \cup {[kind |-> "addServerMethod", requestedId |-> TestMethod, parentId |-> p,
           browseName |-> "B", nameSpaceIndex |-> TestNs, receiver |-> r,
           nInputs |-> 2, nOutputs |-> 1, method |-> ServerMethod(2, 1)] :
             p \in {NodeIdObjects, FirstFolder}, r \in BOOLEAN}
    \cup AddVariableRequests({NumberValue}, {NodeIdObjects},
                             {[type |-> "Int32", data |-> 1]}, {ReadWrite})
NullNext ==
    \E t \in {"t1"} :
        \/ Invoke(t, NullRequests)
        \/ addFolder(t)
        \/ addVariable(t)
        \/ addServerMethod(t)
        \/ addVariableNode(t)
NullSpec == InitObserved /\ [][NullNext]_vars

\* one caller that adds folders, variables and methods under the Objects
\* folder (namespace 0) and under the first folder (namespace 1), with the
\* nameSpaceIndex argument left at 0 or naming a third namespace
NamedRequests ==
    {[kind |-> "addFolder", requestedId |-> <<TestNs, 0>>, parentId |-> p,
      browseName |-> "A", nameSpaceIndex |-> i, receiver |-> TRUE] :
        p \in {NodeIdObjects, FirstFolder}, i \in {0, 2}}
    \cup {[kind |-> "addVariable", requestedId |-> NumberValue, parentId |-> p,
           browseName |-> "A", value |-> [type |-> "Int32", data |-> 1],
           context |-> NoContext, nameSpaceIndex |-> i, receiver |-> FALSE] :
             p \in {NodeIdObjects, FirstFolder}, i \in {0, 2}}
    \cup {[kind |-> "addServerMethod", requestedId |-> TestMethod, parentId |-> p,
           browseName |-> "B", nameSpaceIndex |-> i, receiver |-> FALSE,
           nInputs |-> 2, nOutputs |-> 1, method |-> ServerMethod(2, 1)] :
             p \in {NodeIdObjects, FirstFolder}, i \in {0, 2}}
NamedNext ==
    \E t \in {"t1"} :
        \/ Invoke(t, NamedRequests)
        \/ addFolder(t)
        \/ addVariable(t)
        \/ addServerMethod(t)
NamedSpec == InitObserved /\ [][NamedNext]_vars

\* one caller that adds folders, adds references between them and the Objects
\* folder, some of which close a cycle, and browses the tree; a browseTree
\* that was entered keeps running until it returns
SecondFolder == AutoId(TestNs, 1)
TreeRequests ==
    addFolderNode(TestNs, {NodeIdObjects, FirstFolder}, {"A"})
    \cup ReferenceRequests("addReference", {NodeIdObjects, FirstFolder, SecondFolder},
                           {NodeIdObjects, FirstFolder})
    \cup BrowseTreeRequests({NodeIdObjects, FirstFolder, SecondFolder})
TreeNext ==
    \E t \in {"t1"} :
        \/ Invoke(t, TreeRequests)
        \/ addFolder(t)
        \/ addReference(t)
        \/ browseTree(t)
TreeSpec ==
    /\ InitObserved
    /\ [][TreeNext]_vars
    /\ WF_vars(\E t \in {"t1"} : browseTree(t))

\* one caller that adds folders and objects, some of them siblings with the
\* same browse name, and resolves browse paths from the Objects folder
BrowseRequests ==
    addFolderNode(TestNs, {NodeIdObjects, FirstFolder}, Names)
    \cup AddObjectRequests("addObjectNode", ExplicitIds, {NodeIdObjects, FirstFolder},
                           "Organizes", {"A"})
    \cup BrowsePathRequests({NodeIdObjects}, Paths(MaxPath))
BrowseNext ==
    \E t \in {"t1"} :
        \/ Invoke(t, BrowseRequests)
        \/ addFolder(t)
        \/ addObjectNode(t)
        \/ translateBrowsePathToNodeIds(t)
BrowseSpec == InitObserved /\ [][BrowseNext]_vars

\* the host adds Number_Value as initialise does, and a remote session sends
\* read, add-node, add-reference and delete-node requests
SessionRequests ==
    AddVariableRequests({NumberValue}, {NodeIdObjects},
                        {[type |-> "Int32", data |-> 1]}, {ReadWrite})
    \cup {[kind |-> "Read", nodeId |-> n, attr |-> a] :
             n \in {NumberValue, NodeIdObjects}, a \in {"Value", "BrowseName"}}
    \cup {[kind |-> "AddNodes", requestedId |-> TestMethod, parentId |-> p,
           refType |-> "Organizes", browseName |-> <<TestNs, b>>, receiver |-> TRUE] :
             p \in {NodeIdObjects, NumberValue}, b \in Names}
    \cup {[kind |-> "AddReferences", sourceId |-> a, refType |-> "HasComponent",
           targetId |-> b] : a \in {NodeIdObjects, TestMethod}, b \in {NumberValue}}
    \cup {[kind |-> "DeleteNodes", nodeId |-> n, deleteReferences |-> d] :
             n \in {NumberValue, TestMethod}, d \in BOOLEAN}
SessionNext ==
    \E t \in {"t1"} :
        \/ Invoke(t, SessionRequests)
        \/ addVariableNode(t)
        \/ Service_Read(t)
        \/ Service_AddNodes(t)
        \/ Service_AddReferences(t)
        \/ Service_DeleteNodes(t)
SessionSpec == InitObserved /\ [][SessionNext]_vars

\* one caller that adds Number_Value writable, makes it read-only and writes
\* its value
AccessRequests ==
    AddVariableRequests({NumberValue}, {NodeIdObjects},
                        {[type |-> "Int32", data |-> 1]}, {ReadWrite})
    \cup SetReadOnlyRequests({NumberValue}, BOOLEAN)
    \cup WriteValueRequests({NumberValue}, IntVariants)
    \cup WriteAttributeRequests({NumberValue}, "Value", IntVariants)
    \cup ReadRequests({NumberValue}, {"Value"})
AccessNext ==
    \E t \in {"t1"} :
        \/ Invoke(t, AccessRequests)
        \/ addVariableNode(t)
        \/ setReadOnly(t)
        \/ writeValue(t)
        \/ writeAttribute(t)
        \/ readAttribute(t)
AccessSpec == InitObserved /\ [][AccessNext]_vars

\* one caller that adds String_Value with the test context, and nodes without
\* a context, and deletes them
StringValue == <<1, 2>>
ContextRequests ==
    ContextVariableRequests({StringValue, NumberValue}, {NodeIdObjects},
                            {"TestContext", NoContext})
    \cup addFolderNode(TestNs, {NodeIdObjects}, {"A"})
    \cup DeleteRequests({StringValue, NumberValue, FirstFolder}, {TRUE, FALSE})
    \cup ReadRequests({StringValue}, {"Value"})
ContextNext ==
    \E t \in {"t1"} :
        \/ Invoke(t, ContextRequests)
        \/ addVariableNode(t)
        \/ addFolder(t)
        \/ deleteNode(t)
        \/ readAttribute(t)
ContextSpec == InitObserved /\ [][ContextNext]_vars

\* the access levels of a UA_Byte: the bits the shortcuts name and the bits
\* they leave alone
AccessLevels == SUBSET (AccessBits \cup {"STATUSWRITE"})
WriteEnableRequests(ids) ==
    {[kind |-> "writeEnable", nodeId |-> n, step |-> "readAccessLevel",
      accessLevel |-> {}] : n \in ids}

\* one caller that adds Number_Value with any access level, makes it
\* read-only and enables writing
LevelNext ==
    \E t \in {"t1"} :
        \/ Invoke(t, AddVariableRequests({NumberValue}, {NodeIdObjects},
                                         {[type |-> "Int32", data |-> 1]}, AccessLevels)
                      \cup SetReadOnlyRequests({NumberValue}, BOOLEAN)
                      \cup WriteEnableRequests({NumberValue}))
        \/ addVariableNode(t)
        \/ setReadOnly(t)
        \/ writeEnable(t)
LevelSpec == InitObserved /\ [][LevelNext]_vars

\* a Variant that holds an array of UInt32, one entry for each dimension
ArrayDimensions == {[type |-> "UInt32", data |-> 2], [type |-> "UInt32", data |-> 3]}
ArrayDimensionsRequests(ids, dimensions) ==
    {[kind |-> "writeArrayDimensions", nodeId |-> n, arrayDimensions |-> d] :
        n \in ids, d \in dimensions}

\* one caller that adds Number_Value as an Int32 or as an array of UInt32,
\* writes its array dimensions and reads its value and its dimensions
DimensionsNext ==
    \E t \in {"t1"} :
        \/ Invoke(t, AddVariableRequests({NumberValue}, {NodeIdObjects},
                                         {[type |-> "Int32", data |-> 1],
                                          [type |-> "UInt32", data |-> 1]},
                                         {ReadWrite})
                      \cup DeleteRequests({NumberValue}, {TRUE})
                      \cup ArrayDimensionsRequests({NumberValue}, ArrayDimensions)
                      \cup ReadRequests({NumberValue}, {"Value", "ArrayDimensions"}))
        \/ addVariableNode(t)
        \/ deleteNode(t)
        \/ writeArrayDimensions(t)
        \/ readAttribute(t)
DimensionsSpec == InitObserved /\ [][DimensionsNext]_vars

\* one caller that adds String_Value with or without the test context, sets
\* the context of the node and asks for it
RoundTripNext ==
    \E t \in {"t1"} :
        \/ Invoke(t, ContextVariableRequests({StringValue}, {NodeIdObjects},
                                             {"TestContext", NoContext})
                      \cup DeleteRequests({StringValue}, {TRUE})
                      \cup NodeContextRequests("setNodeContext", {StringValue},
                                               {"TestContext", "OtherContext"})
                      \cup NodeContextRequests("getNodeContext", {StringValue},
                                               {NoContext}))
        \/ addVariableNode(t)
        \/ deleteNode(t)
        \/ setNodeContext(t)
        \/ getNodeContext(t)
RoundTripSpec == InitObserved /\ [][RoundTripNext]_vars

(***************************************************************************)
(* Locking discipline, under Spec.                                         *)
(***************************************************************************)
\* C1: Server::call never holds the server's mutex while the method handler
\* body runs, so a handler that calls a locking operation of the same Server
\* is never left waiting on a mutex its own thread owns, nor ended by it.
C1_CallHoldsNoLockInHandler ==
    \A t \in Threads :
        /\ handler[t] # NoOp => mutex # t
        /\ pc[t] \notin {"blocked", "aborted"}

\* C2: every Server operation holds the mutex for the whole of its engine
\* call, and at most one thread is inside a mutating engine call.
C2_EngineCallsHoldMutex ==
    /\ \A t \in Threads : pc[t] = "engine" => mutex = t
    /\ Cardinality({t \in Threads :
                        /\ pc[t] = "engine"
                        /\ op[t].kind \in {"writeAttribute", "writeValue"}
                                           \cup StructuralKinds}) <= 1

\* C3: a read of a node's Value never overlaps a write of the same node's
\* Value by another thread, and so returns the value before or after it.
C3_ValueReadNeverOverlapsWrite ==
    /\ \A n \in NodeIds : \A r \in ValueReaders(n) : ValueWriters(n) \ {r} = {}
    /\ torn = {}

\* C4: of two structural mutations issued by different threads, neither is
\* inside its engine call while the other is between its start and its end.
C4_StructuralMutationsSerialized ==
    \A a \in Threads : \A b \in Threads \ {a} :
        ~ /\ pc[a] = "engine" /\ op[a].kind \in StructuralKinds
          /\ pc[b] = "engine" /\ op[b].kind \in StructuralKinds

C7_ReadReturnsValueWritten ==
    \A t \in Threads :
        (/\ ret[t] # NoOp
         /\ ret[t].op.kind = "readAttribute" /\ ret[t].op.attr = "Value"
         /\ ret[t].ok
         /\ notes.wrote.nodeId = ret[t].op.nodeId) => ret[t].out = notes.wrote.value

\* C8: writeAttribute returns true exactly when the engine's write ended with
\* good status; afterwards lastError() is that status and lastOK() is the
\* boolean returned.
C8_WriteAttributeReportsStatus ==
    \A t \in Threads :
        (pc[t] = "idle" /\ ret[t] # NoOp /\ ret[t].op.kind = "writeAttribute") =>
            /\ ret[t].ok <=> ret[t].status = Good
            /\ lastError = ret[t].status
            /\ lastOK(lastError) <=> ret[t].ok

\* C9: deleteNode returns true exactly when the deletion status is good.
C9_DeleteNodeReportsStatus ==
    \A t \in Threads :
        (ret[t] # NoOp /\ ret[t].op.kind = "deleteNode") =>
            (ret[t].ok <=> ret[t].status = Good)

\* C10: once deleteNode(id, deleteReferences = true) has removed a node, and
\* until a node with that id is added again, the store holds no node id, no
\* reference entry names id as its holder or its other end, and every
\* readAttribute and writeValue on id fails with NodeNotFound.
C10_RemovedStaysRemoved ==
    /\ \A id \in notes.removed :
          /\ id \notin DOMAIN nodes
          /\ \A r \in refs : r.holder # id /\ r.other # id
    /\ \A t \in Threads :
          (/\ pc[t] = "idle" /\ ret[t] # NoOp
           /\ ret[t].op.kind \in {"readAttribute", "writeValue"}
           /\ ret[t].op.nodeId \in notes.removed) =>
              /\ ~ret[t].ok
              /\ ret[t].status = "NodeNotFound"
              /\ lastError = "NodeNotFound"

\* a read of the Value of a node removed with its references has returned
C10_ReadAfterRemoval ==
    /\ pc["t1"] = "idle" /\ ret["t1"] # NoOp
    /\ ret["t1"].op.kind = "readAttribute"
    /\ ret["t1"].op.nodeId \in notes.removed

(***************************************************************************)
(* Adding nodes, under AddSpec.                                            *)
(***************************************************************************)
\* C11: an add whose requested id asks for auto-assignment, under a parent
\* that exists, succeeds; it adds exactly one node, whose id was the id of no
\* node before the call, and leaves the nodes that were there as they were.
C11_AutoAssignedIdIsNew ==
    [][\A t \in Threads :
          (/\ op[t].kind \in AddKinds /\ pc[t] = "engine"
           /\ IsAutoRequest(op[t].requestedId)
           /\ op[t].parentId \in DOMAIN nodes) =>
              /\ ret'[t].ok /\ ret'[t].status = Good /\ lastError' = Good
              /\ Cardinality(DOMAIN nodes' \ DOMAIN nodes) = 1
              /\ \A x \in DOMAIN nodes : x \in DOMAIN nodes' /\ nodes'[x] = nodes[x]
              /\ op[t].receiver =>
                    /\ ret'[t].out \notin DOMAIN nodes
                    /\ ret'[t].out \in DOMAIN nodes']_vars

\* an add with an auto-assigned id has returned its new node, after another
\* auto-assigned node was added and removed
C11_AutoAssignedTwice ==
    /\ pc["t1"] = "idle" /\ ret["t1"] # NoOp
    /\ ret["t1"].op.kind \in AddKinds
    /\ IsAutoRequest(ret["t1"].op.requestedId)
    /\ ret["t1"].ok
    /\ ret["t1"].out = AutoId(TestNs, 1)
    /\ FirstFolder \notin DOMAIN nodes

\* C12: an add whose requested id is the id of a node in the store fails with
\* IdentifierCollision, one whose parent is not in the store fails with
\* ParentNotFound; the call returns false and nodes and references are as
\* they were.
C12_FailedAddChangesNothing ==
    [][\A t \in Threads :
          (op[t].kind \in AddKinds /\ pc[t] = "engine") =>
             LET collides == op[t].requestedId \in DOMAIN nodes
                 orphan == op[t].parentId \notin DOMAIN nodes
             IN  /\ (collides /\ ~orphan) => ret'[t].status = "IdentifierCollision"
                 /\ (orphan /\ ~collides) => ret'[t].status = "ParentNotFound"
                 /\ (collides \/ orphan) =>
                       /\ ret'[t].status \in {"IdentifierCollision", "ParentNotFound"}
                       /\ lastError' = ret'[t].status
                       /\ ~ret'[t].ok
                       /\ nodes' = nodes /\ refs' = refs]_vars

\* an add with the id of an existing node has returned
C12_CollisionReturned ==
    /\ pc["t1"] = "idle" /\ ret["t1"] # NoOp
    /\ ret["t1"].op.kind = "addObjectNode"
    /\ ret["t1"].status = "IdentifierCollision"

(***************************************************************************)
(* Methods, under AritySpec.                                               *)
(***************************************************************************)
\* C13: a call of a method node registered from a ServerMethod constructed
\* with nInputs, with a number of inputs other than nInputs, fails with
\* ArgumentCountMismatch, and the handler is entered only for requests with
\* nInputs inputs.
C13_WrongArgumentCountRejected ==
    \A t \in Threads : \A e \in notes.registered :
        /\ (/\ ret[t] # NoOp /\ ret[t].op.kind = "call"
            /\ ret[t].op.methodId = e.nodeId
            /\ ret[t].op.inputSize # e.nInputs) =>
               (ret[t].status = "ArgumentCountMismatch" /\ ~ret[t].ok)
        /\ (handler[t] # NoOp /\ handler[t].methodId = e.nodeId) =>
               handler[t].inputSize = e.nInputs

\* a call with one input too few of a registered method has returned
C13_MismatchReturned ==
    \E e \in notes.registered :
        /\ pc["t1"] = "idle" /\ ret["t1"] # NoOp
        /\ ret["t1"].op.kind = "call"
        /\ ret["t1"].op.methodId = e.nodeId
        /\ ret["t1"].op.inputSize + 1 = e.nInputs
        /\ ret["t1"].status = "ArgumentCountMismatch"

\* C14: as long as a method node registered from a ServerMethod exists, its
\* numbers of input and output arguments are the nInputs and nOutputs the
\* ServerMethod was constructed with, 0 included.
C14_RegisteredArityIsConstructed ==
    \A e \in notes.registered :
        /\ e.nodeId \in DOMAIN nodes
        /\ nodes[e.nodeId].cls = "Method"
        /\ nodes[e.nodeId].method = [inputs |-> e.nInputs, outputs |-> e.nOutputs]

\* a ServerMethod without inputs and outputs is registered and was called
C14_NoArgumentsRegistered ==
    /\ [nodeId |-> TestMethod, nInputs |-> 0, nOutputs |-> 0] \in notes.registered
    /\ pc["t1"] = "idle" /\ ret["t1"] # NoOp
    /\ ret["t1"].op.kind = "call" /\ ret["t1"].ok

(***************************************************************************)
(* Repeated callbacks, under TimerSpec.                                    *)
(***************************************************************************)
\* C15: a repeated callback that is Running when changeInterval(ms) is called
\* is Running after it: its timer is still registered with the event loop,
\* now with the new interval, and no start() is needed; a callback that is
\* not Running when changeInterval is called is not Running after it and has
\* no timer.
C15_ChangeIntervalKeepsState ==
    \A o \in CallbackIds :
        repeated[o].last = "changeInterval" =>
            IF repeated[o].was
            THEN /\ Running(repeated[o])
                 /\ TimersOf(loop, o) = {[handle |-> repeated[o].id, data |-> o,
                                          interval |-> repeated[o].interval]}
            ELSE /\ ~Running(repeated[o])
                 /\ TimersOf(loop, o) = {}
C15_RunningAtNewInterval ==
    \E o \in CallbackIds :
        /\ repeated[o].last = "changeInterval"
        /\ repeated[o].was
        /\ repeated[o].interval = 500
        /\ \E x \in loop.timers : x.data = o /\ x.interval = 500

\* C16: after any number of start() calls with no stop() between them exactly
\* one timer is registered with the event loop for the callback, and id() is
\* the handle that the first of these calls obtained.
C16_StartOnRunningIsNoOp ==
    \A o \in CallbackIds :
        repeated[o].starts >= 1 =>
            /\ Cardinality(TimersOf(loop, o)) = 1
            /\ repeated[o].id = repeated[o].first
            /\ \A x \in TimersOf(loop, o) : x.handle = repeated[o].first
C16_StartedTwice ==
    \E o \in CallbackIds :
        /\ repeated[o].starts = 2
        /\ repeated[o].last = "start"
        /\ repeated[o].was

\* C17: after stop() the callback is not Running and has no timer with the
\* event loop, also when stop() is called by the callback's own body; the
\* event loop invokes the body of a callback only while it is Running, so a
\* stopped callback is not invoked before a later start().
C17_StoppedIsNotInvoked ==
    [][\A o \in CallbackIds :
          /\ repeated'[o].last = "stop" =>
                ~Running(repeated'[o]) /\ TimersOf(loop', o) = {}
          /\ (loop'.body = o /\ loop.body # o) => Running(repeated[o])]_vars
C17_StoppedInOwnBody ==
    \E o \in CallbackIds :
        /\ loop.body = o
        /\ repeated[o].last = "stop"
        /\ repeated[o].was

(***************************************************************************)
(* The callback registry, under RegistrySpec.                              *)
(***************************************************************************)
\* C18: a callback that the registry has held under a name and holds no
\* longer (its entry was replaced by addRepeatedCallback, erased by
\* removeRepeatedCallback, or the registry was torn down) is destroyed: it has
\* no timer with the event loop and its body is not running.
C18_ReleasedCallbackIsDestroyed ==
    \A o \in CallbackIds :
        (repeated[o].held /\ \A n \in CallbackNames : callbacks[n] # o) =>
            /\ repeated[o].life = "destroyed"
            /\ TimersOf(loop, o) = {}
            /\ loop.body # o

(***************************************************************************)
(* Browse paths, under BrowseSpec.                                         *)
(***************************************************************************)
\* C19: translateBrowsePathToNodeIds over a path of which some segment has
\* two or more sibling candidates with the same browse name returns false
\* with the Ambiguous result, which names no node.
C19_AmbiguousPathHasNoTarget ==
    [][\A t \in Threads :
          (/\ op[t].kind = "translateBrowsePathToNodeIds" /\ pc[t] = "engine"
           /\ AmbiguousSegment(nodes, refs, op[t].origin, op[t].path)) =>
              /\ ret'[t].status = "Ambiguous"
              /\ ~ret'[t].ok
              /\ ret'[t].out = NodeIdNull]_vars
\* a path whose second segment has two candidates has been translated
C19_AmbiguousReturned ==
    /\ pc["t1"] = "idle" /\ ret["t1"] # NoOp
    /\ ret["t1"].op.kind = "translateBrowsePathToNodeIds"
    /\ ret["t1"].status = "Ambiguous"
    /\ Len(ret["t1"].op.path) = 2
    /\ Cardinality(ChildrenNamed(nodes, refs, NodeIdObjects, ret["t1"].op.path[1])) = 1

(***************************************************************************)
(* Access control, under SessionSpec.                                      *)
(***************************************************************************)
\* C20: under the access control that Server has by default, no read,
\* add-node or add-reference request of a remote session is answered with
\* AccessDenied, every delete-node request is, and no request of a session
\* removes a node from the store.
C20_DefaultPolicyForSessions ==
    [][\A t \in Threads :
          (op[t].kind \in SessionKinds /\ pc[t] = "entry") =>
              /\ op[t].kind \in {"Read", "AddNodes", "AddReferences"} =>
                    ret'[t].status # "AccessDenied"
              /\ op[t].kind = "DeleteNodes" => ret'[t].status = "AccessDenied"
              /\ \A x \in DOMAIN nodes : x \in DOMAIN nodes']_vars

(***************************************************************************)
(* Read-only variables, under AccessSpec.                                  *)
(***************************************************************************)
\* C21: a writeValue or a writeAttribute of the Value of a Variable node whose
\* access level has no write bit fails with AccessDenied: the call returns
\* false, lastError() is AccessDenied, and the nodes are as they were.
C21_ReadOnlyWriteDenied ==
    [][\A t \in Threads :
          (/\ pc[t] = "engine"
           /\ \/ op[t].kind = "writeValue"
              \/ op[t].kind = "writeAttribute" /\ op[t].attr = "Value"
           /\ op[t].nodeId \in DOMAIN nodes
           /\ nodes[op[t].nodeId].cls = "Variable"
           /\ "WRITE" \notin nodes[op[t].nodeId].accessLevel) =>
              /\ ret'[t].status = "AccessDenied"
              /\ ~ret'[t].ok
              /\ lastError' = "AccessDenied"
              /\ nodes' = nodes]_vars

(***************************************************************************)
(* Node contexts, under ContextSpec.                                       *)
(***************************************************************************)
\* C22: when deleteNode removes a node that has a context attached, the
\* context gets the destruct notification for that node exactly once, and at
\* the moment it gets it the node is still in the store.
C22_DestructBeforeRemoval ==
    \A d \in notes.destructed :
        d.context # NoContext =>
            /\ Len(d.hooks) = 1
            /\ d.hooks[1].nodeId = d.nodeId
            /\ d.hooks[1].context = d.context
            /\ d.hooks[1].present
\* String_Value, added with the test context, was deleted and is gone
C22_ContextNodeDeleted ==
    /\ \E d \in notes.destructed : d.nodeId = StringValue /\ d.context = "TestContext"
    /\ StringValue \notin DOMAIN nodes

(***************************************************************************)
(* The life of a Server                                                    *)
(***************************************************************************)
\* C23: in every run of start(), initialise() is called exactly once and
\* before the first loop iteration, process() is called once per iteration
\* and only between initialise() and terminate(), and terminate() is called
\* exactly once over the life of the Server, the destructor's call counted,
\* after the last process()
C23_LifecycleOrder ==
    /\ life.initialised <= 1
    /\ life.terminated <= 1
    /\ life.iterations > 0 => life.initialised = 1
    /\ life.processed <= life.iterations
    /\ life.iterations <= life.processed + 1
    /\ life.at # "process" => life.processed = life.iterations
    /\ life.at = "process" => life.initialised = 1 /\ life.terminated = 0
    /\ life.terminated = 1 => life.at \in {"shutdown", "destroyed"}
    /\ life.at = "shutdown" => life.initialised = 1 /\ life.terminated = 1
    /\ life.at = "destroyed" /\ life.built => life.terminated = 1
C23_RunThenDestroyed ==
    /\ life.at = "destroyed"
    /\ life.initialised = 1
    /\ life.processed = MaxIterations
    /\ life.terminated = 1

\* C24: a Server whose engine was not allocated or not configured refuses
\* to start: start() never enters the loop, never calls initialise() or
\* process(), and running() stays false
C24_RefusesToStart ==
    ~life.built =>
        /\ ~life.running
        /\ life.at \notin {"initialise", "loop", "process", "terminate", "shutdown"}
        /\ life.initialised = 0
        /\ life.iterations = 0
        /\ life.processed = 0
C24_StartRefused ==
    /\ life.at = "refused"
    /\ ~life.built
    /\ ~life.running

(***************************************************************************)
(* Methods of a Server in any state, and namespaces                        *)
(***************************************************************************)
\* C25: every public operation of a Server other than its construction, in
\* any state, a null engine handle included, returns a failure value to its
\* caller and never throws or ends the process; the failure value of
\* addNamespace is not a valid namespace index
C25_FailureIsReturned ==
    \A t \in Threads :
        /\ pc[t] \notin {"thrown", "aborted"}
        /\ (ret[t] \notin {NoOp, Discarded} /\ ~life.server) =>
              /\ ~ret[t].ok
              /\ ret[t].op.kind = "addNamespace" => ret[t].out \notin NamespaceIndices

C27_AbsentOrInapplicable ==
    [][\A t \in Threads :
          (/\ pc[t] = "engine"
           /\ op[t].kind \in {"readAttribute", "writeAttribute"}
           /\ \/ op[t].nodeId \notin DOMAIN nodes
              \/ ~AttributeApplies(nodes[op[t].nodeId].cls, op[t].attr)) =>
              /\ ~ret'[t].ok
              /\ lastError' = IF op[t].nodeId \notin DOMAIN nodes
                              THEN "NodeNotFound" ELSE "AttributeNotApplicable"
              /\ nodes' = nodes /\ refs' = refs]_vars

(***************************************************************************)
(* browseTree                                                              *)
(***************************************************************************)
\* a cycle of forward hierarchical references through nodeId
OnCycle(nodeId) ==
    \/ nodeId \in Children(nodes, refs, nodeId)
    \/ \E c \in Children(nodes, refs, nodeId) : nodeId \in Children(nodes, refs, c)

\* C28: browseTree terminates on every finite address space, also when the
\* forward hierarchical references form a cycle, and expands each NodeId at
\* most once during one traversal
C28_BrowseTreeTerminates ==
    /\ [](\A t \in Threads :
            op[t].kind = "browseTree" =>
                \A i, j \in DOMAIN op[t].expanded :
                    op[t].expanded[i] = op[t].expanded[j] => i = j)
    /\ \A t \in {"t1"} :
          (op[t].kind = "browseTree") ~> (/\ pc[t] = "idle" /\ ret[t] # NoOp
                                          /\ ret[t].op.kind = "browseTree")
C28_CycleBrowsed ==
    /\ pc["t1"] = "idle"
    /\ ret["t1"] # NoOp
    /\ ret["t1"].op.kind = "browseTree"
    /\ OnCycle(ret["t1"].op.nodeId)
    /\ Len(ret["t1"].out) >= 2

(***************************************************************************)
(* NodeId                                                                  *)
(***************************************************************************)
\* C29: two NodeIds are equal by operator== if and only if they have the
\* same namespace index and the same identifier kind and value; NodeIds
\* constructed from different unsigned namespace indices are never equal
C29_EqualIffSame ==
    \A t \in Threads :
        (ret[t] \notin {NoOp, Discarded} /\ ret[t].op.kind = "operator==") =>
            (ret[t].ok <=> /\ ret[t].op.index = ret[t].op.otherIndex
                           /\ ret[t].op.id.type = ret[t].op.otherId.type
                           /\ ret[t].op.id.value = ret[t].op.otherId.value)

(***************************************************************************)
(* Receivers of new node ids                                               *)
(***************************************************************************)
\* C30: an add that is given a receiver marked with notNull() and succeeds
\* leaves in the receiver the id of the node it created, which can be read
\* from the store; an add that fails leaves a receiver that names no node
\* and creates none
C30_ReceiverNamesNewNode ==
    [][\A t \in Threads :
          (/\ op[t].kind \in AddKinds /\ pc[t] = "engine"
           /\ op[t].receiver) =>
              IF ret'[t].ok
              THEN /\ ret'[t].out \in DOMAIN nodes' \ DOMAIN nodes
                   /\ DOMAIN nodes' = DOMAIN nodes \cup {ret'[t].out}
                   /\ UA_Server_read(nodes', ret'[t].out, "NodeId").status = Good
              ELSE /\ ret'[t].out \notin DOMAIN nodes'
                   /\ nodes' = nodes]_vars
\* an add with a receiver has failed over an id that is in the store
C30_ReceiverAfterCollision ==
    /\ pc["t1"] = "idle" /\ ret["t1"] # NoOp
    /\ ret["t1"].op.kind = "addObjectNode"
    /\ ret["t1"].op.receiver
    /\ ret["t1"].status = "IdentifierCollision"
    /\ ret["t1"].out = notNull
    /\ ret["t1"].op.requestedId \in DOMAIN nodes

C32_OutputCountChecked ==
    [][\A t \in Threads :
          (/\ op[t].kind = "call" /\ pc[t] = "engine"
           /\ op[t].phase = "returned"
           /\ op[t].methodId \in DOMAIN nodes
           /\ op[t].produced # nodes[op[t].methodId].method.outputs) =>
              /\ ret'[t].status = "ArgumentCountMismatch"
              /\ ~ret'[t].ok
              /\ ret'[t].out = 0]_vars

(***************************************************************************)
(* Stopping a Server                                                       *)
(***************************************************************************)
\* C33: once stop() is called while the loop of start() is running,
\* running() is false, the loop starts no iteration and no process() after
\* the current one, terminate() is called and start() returns
C33_StopEndsTheRun ==
    /\ [](life.stopped =>
            /\ ~life.running
            /\ life.iterations = life.atStop
            /\ life.processed <= life.atStop)
    /\ life.stopped ~> (life.at \in {"shutdown", "destroyed"} /\ life.terminated = 1)
C33_StoppedAndReturned ==
    /\ life.stopped
    /\ life.at = "shutdown"
    /\ life.atStop >= 1
    /\ life.processed = life.atStop
    /\ life.terminated = 1

(***************************************************************************)
(* The result of browseName and variable                                   *)
(***************************************************************************)
\* C34: the boolean returned by browseName and by variable is the outcome
\* of the engine read of that call, whatever the calls before it did: true
\* on a node that exists, false on a node that is missing
C34_ResultOfOwnRead ==
    [][\A t \in Threads :
          (op[t].kind \in {"browseName", "variable"} /\ pc[t] = "engine") =>
              (ret'[t].ok <=> op[t].nodeId \in DOMAIN nodes)]_vars

(***************************************************************************)
(* setNodeContext and getNodeContext                                       *)
(***************************************************************************)
\* C35: a getNodeContext that succeeds sets its out argument to the context
\* of the node: the one of the last setNodeContext that succeeded on it, or
\* the one the node was added with
C35_ContextRoundTrip ==
    [][\A t \in Threads :
          (/\ op[t].kind = "getNodeContext" /\ pc[t] = "engine"
           /\ ret'[t].ok) =>
              ret'[t].out = nodes[op[t].nodeId].context]_vars

(***************************************************************************)
(* writeArrayDimensions                                                    *)
(***************************************************************************)
\* C36: writeArrayDimensions(n, d) changes nothing but the ArrayDimensions
\* attribute of n (the Value of n stays what it was), and when it returns
\* true a readArrayDimensions(n) that follows returns d
C36_OnlyArrayDimensions ==
    [][\A t \in Threads :
          (op[t].kind = "writeArrayDimensions" /\ pc[t] = "engine") =>
              /\ DOMAIN nodes' = DOMAIN nodes
              /\ \A m \in DOMAIN nodes :
                    nodes'[m] = [nodes[m] EXCEPT
                                    !.arrayDimensions = nodes'[m].arrayDimensions]
              /\ ret'[t].ok =>
                    UA_Server_read(nodes', op[t].nodeId, "ArrayDimensions")
                        = [status |-> Good, value |-> op[t].arrayDimensions]]_vars

(***************************************************************************)
(* setReadOnly and writeEnable                                             *)
(***************************************************************************)
\* the level setReadOnly and writeEnable are to store over the level a
ReadOnlyLevel(a, historyEnable) ==
    ((a \ {"WRITE", "HISTORYWRITE"}) \cup {"READ"})
    \cup (IF historyEnable THEN {"HISTORYREAD"} ELSE {})
WriteEnabledLevel(a) == a \cup {"WRITE"}

\* C37: on a Variable node whose access level is a, setReadOnly(n, h) stores
\* a without WRITE and HISTORYWRITE, with READ and, when h is true, with
\* HISTORYREAD; writeEnable(n) stores a with WRITE; no other bit changes,
\* and the call that stored the level returns true
C37_AccessLevelShortcuts ==
    [][\A t \in Threads :
          (/\ op[t].kind \in {"setReadOnly", "writeEnable"}
           /\ pc[t] = "engine" /\ op[t].step = "writeAccessLevel"
           /\ op[t].nodeId \in DOMAIN nodes) =>
              LET a == nodes[op[t].nodeId].accessLevel
              IN  /\ nodes'[op[t].nodeId].accessLevel =
                        IF op[t].kind = "setReadOnly"
                        THEN ReadOnlyLevel(a, op[t].historyEnable)
                        ELSE WriteEnabledLevel(a)
                  /\ ret'[t].ok]_vars
\* the levels are stored as the shortcuts are to compute them
AccessLevelStored ==
    [][\A t \in Threads :
          (/\ op[t].kind \in {"setReadOnly", "writeEnable"}
           /\ pc[t] = "engine" /\ op[t].step = "writeAccessLevel"
           /\ op[t].nodeId \in DOMAIN nodes) =>
              LET a == nodes[op[t].nodeId].accessLevel
              IN  nodes'[op[t].nodeId].accessLevel =
                        IF op[t].kind = "setReadOnly"
                        THEN ReadOnlyLevel(a, op[t].historyEnable)
                        ELSE WriteEnabledLevel(a)]_vars

(***************************************************************************)
(* NodeId::Null                                                            *)
(***************************************************************************)
\* C38: NodeId::Null stays null: an add operation that was given NodeId::Null
\* as its newNode / outNewNodeId argument leaves the null id in it, whether
\* the add succeeded or failed
C38_NullStaysNull ==
    \A t \in Threads :
        (/\ ret[t] # NoOp
         /\ ret[t].op.kind \in AddKinds
         /\ ~ret[t].op.receiver) =>
            ret[t].out = NodeIdNull
\* the folder of the example server was added with NodeId::Null as newNode
C38_AddedWithNull ==
    /\ ret["t1"] # NoOp
    /\ ret["t1"].op.kind = "addFolder"
    /\ ~ret["t1"].op.receiver
    /\ ret["t1"].ok
    /\ FirstFolder \in DOMAIN nodes
    /\ ret["t1"].out = NodeIdNull

(***************************************************************************)
(* ServerMethod::methodCallback and Server::findServer                     *)
(***************************************************************************)
\* C39: a call of a method reports a good status only when the handler of
\* the method node was invoked and returned good; and findServer of an
\* engine that is not in the server map leaves the map as it was
C39_GoodOnlyFromHandler ==
    [][\A t \in Threads :
          /\ (op[t].kind = "call" /\ pc[t] = "engine" /\ op[t].phase # "requested") =>
                (ret'[t].ok => op[t].phase = "returned" /\ op[t].status = Good)
          /\ (/\ op[t].kind = "findServer" /\ pc[t] = "entry"
              /\ ~\E e \in life.serverMap : e.handle = op[t].s) =>
                life'.serverMap = life.serverMap]_vars

====
